---- MODULE Spec2Model ----
(***************************************************************************)
(* The device facade of the vimputti manager: the control plane that       *)
(* creates and destroys virtual devices (src/src/manager/mod.rs), the      *)
(* uinput relay that creates mirror devices (src/src/manager/uinput.rs),   *)
(* the hotplug broadcaster (src/src/manager/udev.rs) and the per-device    *)
(* consumer fan-out (src/src/manager/device.rs).                           *)
(*                                                                         *)
(* Spec         the device lifecycle: two control sessions and one uinput  *)
(*              session create and destroy devices and their files.        *)
(* HotplugSpec  the control sessions and the udev monitors that subscribe  *)
(*              to add and remove records.                                 *)
(* FanSpec      two control sessions send to one live device whose         *)
(*              registered consumers read, stall and close; FairFanSpec    *)
(*              is the same plane under a fair scheduler.                  *)
(* AcceptSpec   consumers connect to one live device: accept, handshake,   *)
(*              push, while one control session sends.                     *)
(* EncodeSpec   one control session sends every batch of events up to      *)
(*              MaxBatchLen to one live device.                            *)
(* RelaySpec    one control session and one uinput session over one live   *)
(*              device: DevCreate, DevDestroy, session end, ListDevices    *)
(*              and the hotplug records one monitor is sent.               *)
(* HangupSpec   one control session creates devices and hangs up, under a  *)
(*              fair scheduler.                                            *)
(* MirrorSpec   a source device with a registered mirror: control          *)
(*              sessions send batches that are relayed to the mirror.      *)
(* WireSpec     the uinput wire of one session: the requests its client    *)
(*              writes, the responses the manager writes back.             *)
(* RaceSpec     the fan-out plane together with creation and destruction   *)
(*              of further devices and their files.                        *)
(* FrameSpec    the length-prefixed frames a peer writes on one uinput     *)
(*              session, well-formed or not.                               *)
(* CommandSpec  the lines a peer pipelines on one control connection       *)
(*              over a source device and its mirror.                       *)
(* FailureSpec  two control connections: read errors, write errors and     *)
(*              lines that do not parse.                                   *)
(* DrainSpec    a device is destroyed while consumers connect to it,       *)
(*              under a fair scheduler.                                    *)
(* LagSpec      one monitor reads slower than devices are created and      *)
(*              destroyed: the broadcast channel of capacity 100.          *)
(* FeedbackSpec consumers write records into a device's event socket       *)
(*              while feedback subscribers connect and close.              *)
(* ClampSpec    one control session sends axis values at and beyond the    *)
(*              ends of the i16 range to a joystick consumer.              *)
(* LockSpec     three manager processes start on one control-socket path   *)
(*              and contend for its instance lock.                         *)
(* SysfsSpec    the sysfs and udev data files written for a device config. *)
(* GuardSpec    the tasks of four connections take and release the guards  *)
(*              of the registry, the id allocator and the mirror map.      *)
(* ForwardSpec  two uinput sessions, one Running and one in Setup, write   *)
(*              event batches and issue DevCreate and DevDestroy.          *)
(* OrderSpec    both control sessions send into a source device that has   *)
(*              a mirror.                                                  *)
(* OpenSpec     the launcher's open handler connects a consumer to the     *)
(*              uinput socket and to the two nodes of a device.            *)
(***************************************************************************)
EXTENDS Integers, Sequences, FiniteSets, TLC

\* ---------------------------------------------------------------- bounds
\* Ids the allocator may hand out in one run of the lifecycle and hotplug
\* planes: 0 .. MaxDevices-1.
MaxDevices == 2
\* Ids the allocator may hand out in one run of the relay plane.
MaxRelayDevices == 3
\* SendInput requests accepted in one run of the fan-out plane.
MaxSends == 2
\* SendInput requests accepted in one run of the accept plane.
MaxAcceptSends == 1
\* SendInput requests accepted in one run of the encoding plane.
MaxEncodeSends == 1
\* Events in one SendInput batch of the encoding plane.
MaxBatchLen == 2
\* Units (one handshake part or one record) a consumer's socket buffer holds.
BufCap == 3

\* ------------------------------------------------------------- processes
ControlSessions == {"c1", "c2"}
UinputSessions == {"u1", "u2"}
\* The uinput session of the lifecycle plane.
LifeUinput == {"u1"}
AllSessions == ControlSessions \cup UinputSessions
Monitors == {"m1", "m2"}
\* Consumer connections: two to the event socket, one to the joystick socket.
EventConns == {"k1", "k2"}
JsConns == {"j1"}
Conns == EventConns \cup JsConns
FbConns == {"f1", "f2"}
Managers == {"mgr1", "mgr2", "mgr3"}
NoManager == "nobody"
\* Arc<Mutex<..>> devices, next_device_id and mirror_map of the manager.
Mutexes == {"devices", "next_device_id", "mirror_map"}
NoTask == "none"
\* A task between two requests.
Idle == <<"idle", 1>>
\* The paths a consumer under the launcher opens, and the connection each open
\* makes: a consumer connection of device 0, or a uinput session.
UinputPath == "/dev/uinput"
OpenPaths == {UinputPath, "/dev/input/event0", "/dev/input/js0"}
OpenConn(p) ==
    CASE p = UinputPath -> "u1"
      [] p = "/dev/input/event0" -> "k1"
      [] OTHER -> "j1"
\* The ids whose sysfs files the model writes, and a device without files.
SysfsIds == {0, 1}
NoFiles == <<>>
\* Every id a plane may hand out.
DeviceIds == 0..(MaxRelayDevices - 1)

\* ------------------------------------------------------ values and names
None == -1
NoDevice == [id |-> None, js |-> FALSE]
NoResult == [type |-> "none", device_id |-> None, list |-> {}]
Result(t, id) == [type |-> t, device_id |-> id, list |-> {}]
\* ControlResult::DeviceList: the ids of the listed devices.
DeviceList(ids) == [type |-> "DeviceList", device_id |-> None, list |-> ids]

\* BTN_SOUTH, the one key code the modelled uinput session enables.
BTN_SOUTH == 304
\* ABS_X, the one axis code it enables.
ABS_X == 0

VARIABLES
    \* Manager (mod.rs:24-41) and UinputEmulator (uinput.rs:75-81)
    next_device_id,     \* the id counter behind its mutex
    devices,            \* registry: id -> the device object it owns
    mirror_map,         \* source id -> mirror id
    \* what is on disk under the base path, and which listeners are open
    fs,                 \* set of <<kind, id>>: kind in FileKinds
    listeners,          \* set of <<kind, id>> bound and being accepted on
    \* one task per session: control sessions and uinput sessions
    pc,                 \* position of the session's handler
    device_id,          \* the handler's local device id
    config,             \* the config of the request: does it declare controls
    held,               \* the device object the handler owns locally
    result,             \* the response the handler is about to write
    \* uinput session state (uinput.rs:202-205)
    state_keys,         \* UinputDeviceState.keys
    state_abs,          \* UinputDeviceState.abs_axes: the codes it holds
    \* the two directions of a uinput connection, and the shim at its far end
    requests,           \* every request the shim wrote, in order
    req_read,           \* how many of them handle_client has read
    responses,          \* every response handle_client wrote, as the request it answers
    resp_read,          \* how many of them the shim has read
    client,             \* the shim: "none" (not modelled), "ready", "awaiting", "closed"
    created_device_id,  \* handle_client's created_device_id
    bound_device_id,    \* handle_client's bound_device_id
    source_device_id,   \* DevCreate's local source id
    \* UdevBroadcaster (udev.rs:90-93): one receiver per accepted monitor
    mon_st,             \* "off", "queued" (connected, not accepted), "subscribed",
                        \* "hungup" (the monitor closed its end), "dropped"
    mon_queue,          \* the records sent to the monitor's receiver, in order
    mon_pos,            \* how many of them its receiver has returned or skipped
    mon_out,            \* the records written to the monitor's socket, in order
    add_subs,           \* history: the receivers subscribed when the session's add was sent
    \* VirtualDevice (device.rs:11-23), indexed by the device's id
    clients,            \* the event-stream write halves, in push order
    joystick_clients,   \* the joystick-stream write halves, in push order
    clients_lock,       \* who holds the mutex of `clients`
    joystick_lock,      \* who holds the mutex of `joystick_clients`
    \* one consumer connection
    conn_st,            \* "none", "queued", handshake steps, "done", "dropped"
    conn_dev,           \* the id of the device whose socket it connected to
    mode,               \* the consumer: "reading", "stalled" (never reads again), "closed"
    wire,               \* every unit written to the connection, in order
    unread,             \* units in the socket buffer the consumer has not read
    \* force feedback (device.rs:63-78, 168-200)
    feedback_clients,   \* the feedback streams of a device, in push order
    fb_st,              \* a feedback subscriber: "none", "queued", "listed",
                        \* "hungup" (listed, its peer closed), "removed"
    fb_dev,             \* the id of the device whose feedback socket it connected to
    fb_wire,            \* the records written to the subscriber, in order
    ff_in,              \* the records the consumer wrote into its event socket
    ff_read,            \* how many of them the connection's reader task has taken
    reader_dead,        \* the connections whose reader task has ended
    \* the manager processes started on one control-socket path (mod.rs:44-86)
    mgr_st,             \* "down", the steps of Manager::new ("dirs", "opened",
                        \* "locked"), "running" (it returned Ok), "failed"
    lock_holder,        \* the process whose open file holds the flock, or NoManager
    \* the sysfs projection (sysfs.rs), indexed by the device's id
    sysfs_content,      \* what the files of the device hold, or NoFiles
    \* the manager's three mutexes (mod.rs:246-352, uinput.rs:148-188, 303-593)
    guard,              \* the task that holds the guard of each mutex, or NoTask
    at,                 \* the handler each task runs and the step it is about to take
    \* the launcher's handler of an open of a virtual device (handler.rs:90-192)
    open_st,            \* per path: "start", "handshake" (connected, inside
                        \* receive_handshake), "opened", "eio" (open failed)
    \* send_events locals of a session (device.rs:251-383)
    batch,              \* the events of the request
    target,             \* the device object send_events runs on
    data,               \* the buffer write_all is given
    idx,                \* position in the client list
    off,                \* units of data already written to the current client
    disconnected,       \* indices of the clients whose write failed
    failed,             \* history: the connections whose write failed in this loop
    sends               \* SendInput requests accepted so far

\* What the shim changes, and with what handle_client changes the whole wire.
shimVars == <<requests, resp_read, client>>
wireVars == <<shimVars, req_read, responses>>

lifeVars == <<next_device_id, devices, mirror_map, fs, listeners, pc, device_id,
              config, held, result, state_keys, state_abs, wireVars,
              created_device_id,
              bound_device_id, source_device_id, mon_st, mon_queue, mon_pos,
              mon_out, add_subs>>

sendVars == <<batch, target, data, idx, off, disconnected, failed, sends>>

fbVars == <<feedback_clients, fb_st, fb_dev, fb_wire, ff_in, ff_read,
            reader_dead>>

\* The manager processes of a host and the lock file they contend for.
guardVars == <<guard, at>>
hostVars == <<mgr_st, lock_holder, sysfs_content, guardVars, open_st>>

fanVars == <<clients, joystick_clients, clients_lock, joystick_lock, conn_st,
             conn_dev, mode, wire, unread, sendVars, fbVars, hostVars>>

vars == <<lifeVars, fanVars>>

\* ------------------------------------------------------------ the files
SocketKinds == {"event", "js", "feedback"}
SysfsKinds == {"sysfs", "class", "udev_data"}
FileKinds == SocketKinds \cup SysfsKinds

\* The paths a device object removes when it is dropped.
DropPaths(dev) ==
    {<<"event", dev.id>>, <<"feedback", dev.id>>}
        \cup (IF dev.js THEN {<<"js", dev.id>>} ELSE {})
        \cup {<<k, dev.id>> : k \in SysfsKinds}

\* SysfsGenerator::remove_device_files together with the three remove_file calls.
DropDevice(files, dev) == files \ DropPaths(dev)

\* Arc<VirtualDevice>: the registry and every handler that cloned or took it.
InRegistry(dev) == dev.id \in DOMAIN devices /\ devices[dev.id] = dev
Holders(dev) == {s \in AllSessions : held[s] = dev}
RefCount(dev) ==
    (IF InRegistry(dev) THEN 1 ELSE 0) + Cardinality(Holders(dev))
        + Cardinality({s \in AllSessions : target[s] = dev /\ held[s] # dev})

\* Release one reference to dev: the last one runs Drop.
ReleaseFiles(files, dev) ==
    IF dev # NoDevice /\ RefCount(dev) = 1 THEN DropDevice(files, dev) ELSE files

\* HashMap::insert / HashMap::remove on the registry.
MapInsert(m, k, v) == [i \in DOMAIN m \cup {k} |-> IF i = k THEN v ELSE m[i]]
MapRemove(m, k) == [i \in DOMAIN m \ {k} |-> m[i]]
EmptyMap == [i \in {} |-> NoDevice]

\* A lookup that takes the largest key.
Largest(S) == CHOOSE x \in S : \A y \in S : x >= y

\* devices_lock.keys().min() (uinput.rs:416-419).
Min(S) == CHOOSE x \in S : \A y \in S : x <= y

\* --------------------------------------------------------- id allocator
\* An allocator that forgets the increment.
AllocStale(n) == n

\* An allocator that goes back to the first id.
AllocRestart(n) == 0

\* `let id = *next_id; *next_id += 1; id` under the allocator's mutex.
AllocNext(n) == n + 1

\* ------------------------------------------------ VirtualDevice::create
CreateOutcomes == {"ok", "fail_bind", "fail_sysfs", "fail_feedback", "fail_js"}

\* The files on disk after VirtualDevice::create ran to the given outcome.
CreateFiles(files, id, js, outcome) ==
    LET f0 == files \ {<<"event", id>>}
        f1 == f0 \cup {<<"event", id>>}
        f2 == f1 \cup {<<"sysfs", id>>}
        f4 == f2 \cup {<<"class", id>>, <<"udev_data", id>>}
        f5 == f4 \cup {<<"feedback", id>>}
        f6 == IF js THEN f5 \cup {<<"js", id>>} ELSE f5
    IN  CASE outcome = "fail_bind" -> f0
          [] outcome = "fail_sysfs" -> f2
          [] outcome = "fail_feedback" -> f4
          [] outcome = "fail_js" -> f5
          [] OTHER -> f6

\* The listeners that stay open: those already moved into a spawned accept task.
CreateListeners(ls, id, js, outcome) ==
    CASE outcome \in {"fail_bind", "fail_sysfs"} -> ls
      [] outcome = "fail_feedback" -> ls \cup {<<"event", id>>}
      [] outcome = "fail_js" -> ls \cup {<<"event", id>>, <<"feedback", id>>}
      [] OTHER -> ls \cup {<<"event", id>>, <<"feedback", id>>}
                     \cup (IF js THEN {<<"js", id>>} ELSE {})

\* ---------------------------------------------------- hotplug broadcast
Record(action, id) == <<action, id>>

\* A send that reaches no receiver.
SendNothing(queues, rec) == queues

\* broadcast::Sender::send: one copy for every receiver subscribed now.
SendToReceivers(queues, rec) ==
    [m \in Monitors |-> IF mon_st[m] \in {"subscribed", "hungup"}
                        THEN Append(queues[m], rec) ELSE queues[m]]

\* Everything sent to monitor m's receiver.
Enqueued(m) == mon_queue[m]
Range(seq) == {seq[i] : i \in 1..Len(seq)}


\* The far end of no uinput connection is modelled: requests arrive as the
\* session reads them.
InitWire ==
    /\ requests = [s \in AllSessions |-> <<>>]
    /\ req_read = [s \in AllSessions |-> 0]
    /\ responses = [s \in AllSessions |-> <<>>]
    /\ resp_read = [s \in AllSessions |-> 0]
    /\ client = [s \in AllSessions |-> "none"]

\* ------------------------------------------------------------------ Init
InitLife ==
    /\ next_device_id = 0
    /\ devices = EmptyMap
    /\ mirror_map = [i \in {} |-> None]
    /\ fs = {}
    /\ listeners = {}
    /\ pc = [s \in AllSessions |-> "idle"]
    /\ device_id = [s \in AllSessions |-> None]
    /\ config = [s \in AllSessions |-> FALSE]
    /\ held = [s \in AllSessions |-> NoDevice]
    /\ result = [s \in AllSessions |-> NoResult]
    /\ state_keys = [u \in UinputSessions |-> {}]
    /\ state_abs = [u \in UinputSessions |-> {}]
    /\ InitWire
    /\ created_device_id = [u \in UinputSessions |-> None]
    /\ bound_device_id = [u \in UinputSessions |-> None]
    /\ source_device_id = [u \in UinputSessions |-> None]
    /\ mon_st = [m \in Monitors |-> "off"]
    /\ mon_queue = [m \in Monitors |-> <<>>]
    /\ mon_pos = [m \in Monitors |-> 0]
    /\ mon_out = [m \in Monitors |-> <<>>]
    /\ add_subs = [s \in AllSessions |-> {}]

\* Nobody is sending.
InitSend ==
    /\ batch = [s \in AllSessions |-> <<>>]
    /\ target = [s \in AllSessions |-> NoDevice]
    /\ data = [s \in AllSessions |-> <<>>]
    /\ idx = [s \in AllSessions |-> 0]
    /\ off = [s \in AllSessions |-> 0]
    /\ disconnected = [s \in AllSessions |-> <<>>]
    /\ failed = [s \in AllSessions |-> {}]
    /\ sends = 0

\* The manager the other planes are about runs and holds the lock; no second
\* manager has been started.
InitHost ==
    /\ mgr_st = [m \in Managers |-> IF m = "mgr1" THEN "running" ELSE "down"]
    /\ lock_holder = "mgr1"
    /\ sysfs_content = [id \in SysfsIds |-> NoFiles]
    /\ guard = [m \in Mutexes |-> NoTask]
    /\ at = [t \in AllSessions |-> Idle]
    /\ open_st = [p \in OpenPaths |-> "start"]

\* No feedback subscriber has connected and no consumer has written a record.
InitFeedback ==
    /\ feedback_clients = [d \in DeviceIds |-> <<>>]
    /\ fb_st = [f \in FbConns |-> "none"]
    /\ fb_dev = [f \in FbConns |-> None]
    /\ fb_wire = [f \in FbConns |-> <<>>]
    /\ ff_in = [k \in EventConns |-> <<>>]
    /\ ff_read = [k \in EventConns |-> 0]
    /\ reader_dead = {}
    /\ InitHost

\* No consumer has connected and no session is sending.
InitFan ==
    /\ clients = [d \in DeviceIds |-> <<>>]
    /\ joystick_clients = [d \in DeviceIds |-> <<>>]
    /\ clients_lock = [d \in DeviceIds |-> "none"]
    /\ joystick_lock = [d \in DeviceIds |-> "none"]
    /\ conn_st = [k \in Conns |-> "none"]
    /\ conn_dev = [k \in Conns |-> None]
    /\ mode = [k \in Conns |-> "reading"]
    /\ wire = [k \in Conns |-> <<>>]
    /\ unread = [k \in Conns |-> 0]
    /\ InitSend
    /\ InitFeedback

Init == InitLife /\ InitFan

\* The locals of a uinput session, and with them the wire.
relayVars == <<state_keys, state_abs, created_device_id, bound_device_id,
               source_device_id>>
uinputVars == <<relayVars, wireVars>>
monVars == <<mon_st, mon_queue, mon_pos, mon_out>>

\* ------------------------------------------ control plane: the wire
\* A line on a control connection: what serde_json::from_str makes of it
\* (mod.rs:185): a ControlMessage with its id and its command, or an error,
\* kind "Malformed".
ControlMessage(id, kind, arg) == [id |-> id, kind |-> kind, arg |-> arg]

\* mod.rs:181-191: handle_client reads the next line off the stream; it parses
\* as the given command.
ReadsLine(s, kind, arg) ==
    IF client[s] = "none"
    THEN UNCHANGED req_read
    ELSE /\ req_read[s] < Len(requests[s])
         /\ requests[s][req_read[s] + 1].kind = kind
         /\ requests[s][req_read[s] + 1].arg = arg
         /\ req_read' = [req_read EXCEPT ![s] = @ + 1]

\* A response that carries the id of the session's first message.
EchoFirst(s) == IF s \in ControlSessions THEN requests[s][1].id ELSE req_read[s]

\* mod.rs:206-209: the ControlResponse takes the id of the message it answers.
\* A uinput response carries no id: it is known by the request it follows.
Echo(s) == IF s \in ControlSessions THEN requests[s][req_read[s]].id ELSE req_read[s]

\* ------------------------------------------- control plane: CreateDevice
\* mod.rs:247-252: take the next id under the allocator's mutex.
CreateDevice_Alloc(s, js) ==
    /\ pc[s] = "idle"
    /\ device_id' = [device_id EXCEPT ![s] = next_device_id]
    /\ next_device_id' = AllocNext(next_device_id)
    /\ config' = [config EXCEPT ![s] = js]
    /\ pc' = [pc EXCEPT ![s] = "create"]
    /\ ReadsLine(s, "CreateDevice", js)
    /\ UNCHANGED <<devices, mirror_map, fs, listeners, held, result, relayVars,
                   shimVars, responses, monVars, add_subs>>
    /\ UNCHANGED fanVars

\* device.rs:26-121, called at mod.rs:258 and uinput.rs:439: on Ok the handler
\* owns the new device object, on Err it answers with an error.
Construct(s, outcome) ==
    /\ pc[s] = "create"
    /\ outcome = "fail_js" => config[s]
    /\ fs' = CreateFiles(fs, device_id[s], config[s], outcome)
    /\ listeners' = CreateListeners(listeners, device_id[s], config[s], outcome)
    /\ IF outcome = "ok"
       THEN /\ held' = [held EXCEPT ![s] =
                           [id |-> device_id[s], js |-> config[s]]]
            /\ pc' = [pc EXCEPT ![s] = "insert"]
            /\ UNCHANGED result
       ELSE /\ result' = [result EXCEPT ![s] = Result("Error", None)]
            /\ pc' = [pc EXCEPT ![s] = "respond"]
            /\ UNCHANGED held
    /\ UNCHANGED <<next_device_id, devices, mirror_map, device_id, config,
                   uinputVars, monVars, add_subs>>
    /\ UNCHANGED fanVars

\* mod.rs:261 and uinput.rs:442-445: the registry takes the object; an object it
\* replaces loses the registry's reference.
RegistryInsert(s, nextpc) ==
    /\ pc[s] = "insert"
    /\ devices' = MapInsert(devices, device_id[s], held[s])
    /\ fs' = IF /\ device_id[s] \in DOMAIN devices
                /\ Holders(devices[device_id[s]]) \ {s} = {}
             THEN DropDevice(fs, devices[device_id[s]])
             ELSE fs
    /\ held' = [held EXCEPT ![s] = NoDevice]
    /\ pc' = [pc EXCEPT ![s] = nextpc]
    /\ UNCHANGED <<next_device_id, mirror_map, listeners, device_id, config,
                   result, uinputVars, monVars, add_subs>>
    /\ UNCHANGED fanVars

CreateDevice_Insert(s) == s \in ControlSessions /\ RegistryInsert(s, "udev_add")

\* mod.rs:265-278: broadcast_add (udev.rs:303-305), then the result.
CreateDevice_BroadcastAdd(s) ==
    /\ pc[s] = "udev_add"
    /\ mon_queue' = SendToReceivers(mon_queue, Record("add", device_id[s]))
    /\ add_subs' = [add_subs EXCEPT ![s] = {m \in Monitors : mon_st[m] = "subscribed"}]
    /\ result' = [result EXCEPT ![s] = Result("DeviceCreated", device_id[s])]
    /\ pc' = [pc EXCEPT ![s] = "respond"]
    /\ UNCHANGED <<next_device_id, devices, mirror_map, fs, listeners, device_id,
                   config, held, uinputVars, mon_st, mon_pos, mon_out>>
    /\ UNCHANGED fanVars

\* The far end of session s is modelled: its requests come off `requests`.
Wired(s) == client[s] # "none"

\* uinput.rs:222-223: the largest length prefix handle_client accepts.
MaxMessageLen == 1000000
\* A length check that lets an empty message through.
ZeroAccepted(msg_len) == msg_len > MaxMessageLen
InvalidLength(msg_len) == msg_len = 0 \/ msg_len > MaxMessageLen

\* uinput.rs:207-247: handle_client reads the next request off the stream: its
\* length prefix is accepted, its body parses, and it is of the given kind.
Reads(u, kind) ==
    IF client[u] = "none"
    THEN UNCHANGED req_read
    ELSE /\ req_read[u] < Len(requests[u])
         /\ ~ InvalidLength(requests[u][req_read[u] + 1].len)
         /\ requests[u][req_read[u] + 1].kind = kind
         /\ req_read' = [req_read EXCEPT ![u] = @ + 1]

\* mod.rs:201-220 and uinput.rs:273-300: the response is written. On a uinput
\* connection it answers the request read last.
Respond(s) ==
    /\ pc[s] = "respond"
    /\ pc' = [pc EXCEPT ![s] = "idle"]
    /\ result' = [result EXCEPT ![s] = NoResult]
    /\ device_id' = [device_id EXCEPT ![s] = None]
    /\ add_subs' = [add_subs EXCEPT ![s] = {}]
    /\ config' = [config EXCEPT ![s] = FALSE]
    /\ responses' = IF Wired(s)
                    THEN [responses EXCEPT ![s] = Append(@, Echo(s))]
                    ELSE responses
    /\ UNCHANGED <<next_device_id, devices, mirror_map, fs, listeners, held,
                   state_keys, state_abs, shimVars, req_read, created_device_id,
                   bound_device_id, source_device_id, monVars>>
    /\ UNCHANGED fanVars

\* ------------------------------------------ control plane: DestroyDevice
\* An answer that reports success for a device nobody has.
FoundAnyway == Result("DeviceDestroyed", None)

\* mod.rs:304-306 and 332-334: Error{"Device {} not found"}.
NotFound == Result("Error", None)

\* mod.rs:286-288 and 306-308: take the device out of the registry.
DestroyDevice_Remove(s, id) ==
    /\ s \in ControlSessions
    /\ pc[s] = "idle"
    /\ IF id \in DOMAIN devices
       THEN /\ device_id' = [device_id EXCEPT ![s] = id]
            /\ held' = [held EXCEPT ![s] = devices[id]]
            /\ devices' = MapRemove(devices, id)
            /\ pc' = [pc EXCEPT ![s] = "udev_remove"]
            /\ UNCHANGED result
       ELSE /\ result' = [result EXCEPT ![s] = NotFound]
            /\ pc' = [pc EXCEPT ![s] = "respond"]
            /\ UNCHANGED <<held, devices, device_id>>
    /\ ReadsLine(s, "DestroyDevice", id)
    /\ UNCHANGED <<next_device_id, mirror_map, fs, listeners, config, relayVars,
                   shimVars, responses, monVars, add_subs>>
    /\ UNCHANGED fanVars

\* mod.rs:291-302: broadcast_remove (udev.rs:351-353) while `device` is still owned.
DestroyDevice_BroadcastRemove(s) ==
    /\ pc[s] = "udev_remove"
    /\ mon_queue' = SendToReceivers(mon_queue, Record("remove", device_id[s]))
    /\ pc' = [pc EXCEPT ![s] = "drop"]
    /\ UNCHANGED <<next_device_id, devices, mirror_map, fs, listeners, device_id,
                   config, held, result, uinputVars, mon_st, mon_pos, mon_out,
                   add_subs>>
    /\ UNCHANGED fanVars

\* mod.rs:304-305: the arm ends, `device` goes out of scope (device.rs:385-405).
DestroyDevice_Drop(s) ==
    /\ pc[s] = "drop"
    /\ fs' = ReleaseFiles(fs, held[s])
    /\ held' = [held EXCEPT ![s] = NoDevice]
    /\ result' = [result EXCEPT ![s] = Result("DeviceDestroyed", device_id[s])]
    /\ pc' = [pc EXCEPT ![s] = "respond"]
    /\ UNCHANGED <<next_device_id, devices, mirror_map, listeners, device_id,
                   config, uinputVars, monVars, add_subs>>
    /\ UNCHANGED fanVars


\* ---------------------------------- control plane: ListDevices, hang-up
\* mod.rs:338-352: one DeviceInfo for every entry of the registry.
ListDevices(s) ==
    /\ s \in ControlSessions
    /\ pc[s] = "idle"
    /\ result' = [result EXCEPT ![s] = DeviceList(DOMAIN devices)]
    /\ pc' = [pc EXCEPT ![s] = "respond"]
    /\ ReadsLine(s, "ListDevices", None)
    /\ UNCHANGED <<next_device_id, devices, mirror_map, fs, listeners, device_id,
                   config, held, relayVars, shimVars, responses, monVars, add_subs>>
    /\ UNCHANGED fanVars

\* A handle_client that takes the devices down with it.
ReturnDestroys(s) ==
    /\ pc' = [pc EXCEPT ![s] = "closed"]
    /\ devices' = EmptyMap
    /\ UNCHANGED <<next_device_id, mirror_map, fs, listeners, device_id, config,
                   held, relayVars, monVars, add_subs>>
    /\ UNCHANGED fanVars

\* mod.rs:229-232 and 135-149: the loop is left and handle_client returns; its
\* task ends, and with it nothing but the session.
Return(s) ==
    /\ pc' = [pc EXCEPT ![s] = "closed"]
    /\ UNCHANGED <<next_device_id, devices, mirror_map, fs, listeners, device_id,
                   config, held, relayVars, monVars, add_subs>>
    /\ UNCHANGED fanVars

\* mod.rs:181-184: read_line returns 0, the peer closed its end.
ControlEof(s) ==
    /\ s \in ControlSessions
    /\ pc[s] = "idle"
    /\ Wired(s) => (client[s] = "closed" /\ req_read[s] = Len(requests[s]))
    /\ Return(s)
    /\ UNCHANGED <<result, wireVars>>

\* mod.rs:220-226: read_line returns an error, whatever is still unread.
ReadError(s) ==
    /\ s \in ControlSessions
    /\ Wired(s)
    /\ pc[s] = "idle"
    /\ Return(s)
    /\ UNCHANGED <<result, wireVars>>

\* mod.rs:211-219: the response cannot be written: broken pipe leaves the loop,
\* any other error returns it; no response reaches the peer.
RespondFails(s) ==
    /\ s \in ControlSessions
    /\ pc[s] = "respond"
    /\ Wired(s) => client[s] = "closed"
    /\ Return(s)
    /\ UNCHANGED <<result, wireVars>>

\* mod.rs:185-191: the line does not parse as a ControlMessage; it is logged
\* and the loop continues with the next line, writing nothing.
ControlParseError(s) ==
    /\ s \in ControlSessions
    /\ Wired(s)
    /\ pc[s] = "idle"
    /\ ReadsLine(s, "Malformed", None)
    /\ UNCHANGED <<next_device_id, devices, mirror_map, fs, listeners, pc,
                   device_id, config, held, result, relayVars, shimVars,
                   responses, monVars, add_subs>>
    /\ UNCHANGED fanVars

\* ------------------------------------------------- uinput relay session
\* The key codes to_device_config turns into buttons (protocol.rs:138-159).
KnownButtonCodes == {BTN_SOUTH}
\* The axis codes it turns into axes (Axis::from_ev_code, protocol.rs).
KnownAxisCodes == {ABS_X}

\* uinput.rs:339-349 SetKeyBit.
SetKeyBit(u, key_code) ==
    /\ u \in UinputSessions
    /\ ~ Wired(u)
    /\ pc[u] = "idle"
    /\ key_code \notin state_keys[u]
    /\ state_keys' = [state_keys EXCEPT ![u] = @ \cup {key_code}]
    /\ UNCHANGED <<next_device_id, devices, mirror_map, fs, listeners, pc,
                   device_id, config, held, result, state_abs, wireVars,
                   created_device_id, bound_device_id, source_device_id, monVars,
                   add_subs>>
    /\ UNCHANGED fanVars

\* uinput.rs:408-429 DevCreate: the config, then the smallest live id as source.
DevCreate_Source(u) ==
    /\ u \in UinputSessions
    /\ pc[u] = "idle"
    /\ Reads(u, "DevCreate")
    /\ config' = [config EXCEPT ![u] = \/ (state_keys[u] \cap KnownButtonCodes) # {}
                                       \/ (state_abs[u] \cap KnownAxisCodes) # {}]
    /\ IF DOMAIN devices = {}
       THEN /\ result' = [result EXCEPT ![u] = Result("Error", None)]
            /\ pc' = [pc EXCEPT ![u] = "respond"]
            /\ UNCHANGED source_device_id
       ELSE /\ source_device_id' = [source_device_id EXCEPT ![u] = Min(DOMAIN devices)]
            /\ pc' = [pc EXCEPT ![u] = "dc_alloc"]
            /\ UNCHANGED result
    /\ UNCHANGED <<next_device_id, devices, mirror_map, fs, listeners, device_id,
                   held, state_keys, state_abs, shimVars, responses,
                   created_device_id, bound_device_id, monVars, add_subs>>
    /\ UNCHANGED fanVars

\* uinput.rs:432-437: the mirror's id from the same allocator.
DevCreate_Alloc(u) ==
    /\ pc[u] = "dc_alloc"
    /\ device_id' = [device_id EXCEPT ![u] = next_device_id]
    /\ next_device_id' = AllocNext(next_device_id)
    /\ pc' = [pc EXCEPT ![u] = "create"]
    /\ UNCHANGED <<devices, mirror_map, fs, listeners, config, held, result,
                   uinputVars, monVars, add_subs>>
    /\ UNCHANGED fanVars

DevCreate_Insert(u) == u \in UinputSessions /\ RegistryInsert(u, "dc_map")

\* uinput.rs:447-465: source -> mirror, the session's two ids, the response.
DevCreate_Map(u) ==
    /\ pc[u] = "dc_map"
    /\ mirror_map' = MapInsert(mirror_map, source_device_id[u], device_id[u])
    /\ bound_device_id' = [bound_device_id EXCEPT ![u] = device_id[u]]
    /\ created_device_id' = [created_device_id EXCEPT ![u] = device_id[u]]
    /\ result' = [result EXCEPT ![u] = Result("Ok", device_id[u])]
    /\ pc' = [pc EXCEPT ![u] = "respond"]
    /\ UNCHANGED <<next_device_id, devices, fs, listeners, device_id, config,
                   held, state_keys, state_abs, wireVars, source_device_id,
                   monVars, add_subs>>
    /\ UNCHANGED fanVars

\* The registry drops the entry of id: HashMap::remove, the Arc it returns dropped.
RegistryRemoveFiles(id) ==
    IF id \in DOMAIN devices THEN ReleaseFiles(fs, devices[id]) ELSE fs

\* uinput.rs:478-486 DevDestroy. process_request is called with the two ids
\* swapped (uinput.rs:257-258 against 319-320), so its `created_device_id.take()`
\* empties handle_client's bound_device_id.
DevDestroy_Remove(u) ==
    /\ u \in UinputSessions
    /\ pc[u] = "idle"
    /\ Reads(u, "DevDestroy")
    /\ IF bound_device_id[u] # None
       THEN /\ device_id' = [device_id EXCEPT ![u] = bound_device_id[u]]
            /\ bound_device_id' = [bound_device_id EXCEPT ![u] = None]
            /\ devices' = MapRemove(devices, bound_device_id[u])
            /\ fs' = RegistryRemoveFiles(bound_device_id[u])
       ELSE UNCHANGED <<device_id, bound_device_id, devices, fs>>
    /\ pc' = [pc EXCEPT ![u] = "dd_map"]
    /\ UNCHANGED <<next_device_id, mirror_map, listeners, config, held, result,
                   state_keys, state_abs, shimVars, responses, created_device_id,
                   source_device_id, monVars, add_subs>>
    /\ UNCHANGED fanVars

\* uinput.rs:488-509: erase the entries whose mirror is the destroyed device, then
\* `*bound_device_id = None`, which is handle_client's created_device_id.
DevDestroy_Map(u) ==
    /\ pc[u] = "dd_map"
    /\ mirror_map' = IF device_id[u] # None
                     THEN [src \in {i \in DOMAIN mirror_map :
                                       mirror_map[i] # device_id[u]} |-> mirror_map[src]]
                     ELSE mirror_map
    /\ created_device_id' = [created_device_id EXCEPT ![u] = None]
    /\ result' = [result EXCEPT ![u] = Result("Ok", None)]
    /\ pc' = [pc EXCEPT ![u] = "respond"]
    /\ UNCHANGED <<next_device_id, devices, fs, listeners, device_id, config,
                   held, state_keys, state_abs, wireVars, bound_device_id,
                   source_device_id, monVars,
                   add_subs>>
    /\ UNCHANGED fanVars

\* uinput.rs:303-313: the cleanup after the loop of handle_client.
Cleanup(u) ==
    /\ IF created_device_id[u] # None
       THEN /\ devices' = MapRemove(devices, created_device_id[u])
            /\ fs' = RegistryRemoveFiles(created_device_id[u])
       ELSE UNCHANGED <<devices, fs>>
    /\ pc' = [pc EXCEPT ![u] = "closed"]
    /\ UNCHANGED <<next_device_id, mirror_map, listeners, device_id, config, held,
                   result, monVars, add_subs>>
    /\ UNCHANGED fanVars

\* uinput.rs:210-220: the transport ends.
SessionEof(u) ==
    /\ u \in UinputSessions
    /\ pc[u] = "idle"
    /\ Wired(u) => (client[u] = "closed" /\ req_read[u] = Len(requests[u]))
    /\ Cleanup(u)
    /\ UNCHANGED uinputVars

\* uinput.rs:222-229: the length prefix of the next message is 0 or above the
\* limit; the loop is left before the body is read.
LengthBreak(u) ==
    /\ u \in UinputSessions
    /\ Wired(u)
    /\ pc[u] = "idle"
    /\ req_read[u] < Len(requests[u])
    /\ InvalidLength(requests[u][req_read[u] + 1].len)
    /\ req_read' = [req_read EXCEPT ![u] = @ + 1]
    /\ Cleanup(u)
    /\ UNCHANGED <<state_keys, state_abs, shimVars, responses, created_device_id,
                   bound_device_id, source_device_id>>

\* uinput.rs:241-247: the body does not parse as a UinputRequest; the loop
\* continues with the next message and writes nothing.
ParseError(u) ==
    /\ u \in UinputSessions
    /\ Wired(u)
    /\ pc[u] = "idle"
    /\ Reads(u, "Malformed")
    /\ UNCHANGED <<next_device_id, devices, mirror_map, fs, listeners, pc,
                   device_id, config, held, result, state_keys, state_abs,
                   shimVars, responses, created_device_id, bound_device_id,
                   source_device_id, monVars, add_subs>>
    /\ UNCHANGED fanVars

\* --------------------------------------------------- hotplug subscribers
\* A udev monitor connects to the udev socket: it waits in the listener's backlog.
MonitorConnect(m) ==
    /\ mon_st[m] = "off"
    /\ mon_st' = [mon_st EXCEPT ![m] = "queued"]
    /\ UNCHANGED <<next_device_id, devices, mirror_map, fs, listeners, pc,
                   device_id, config, held, result, uinputVars, mon_queue,
                   mon_pos, mon_out, add_subs>>
    /\ UNCHANGED fanVars

\* udev.rs:117-128: accept, then event_tx.subscribe().
UdevAccept(m) ==
    /\ mon_st[m] = "queued"
    /\ mon_st' = [mon_st EXCEPT ![m] = "subscribed"]
    /\ UNCHANGED <<next_device_id, devices, mirror_map, fs, listeners, pc,
                   device_id, config, held, result, uinputVars, mon_queue,
                   mon_pos, mon_out, add_subs>>
    /\ UNCHANGED fanVars

\* udev.rs:107: broadcast::channel(100), the records the channel retains for a
\* receiver that has not taken them.
BroadcastCapacity == 100

\* A receive loop that gives a lagging subscriber up.
DropOnLag(st) == "dropped"

\* udev.rs:174-176: RecvError::Lagged is logged and the loop goes on.
AfterLagged(st) == st

\* udev.rs:167-181: one turn of handle_monitor's loop. recv() returns the next
\* record, which is written to the monitor, or Lagged when the receiver is more
\* than the capacity behind: the receiver then stands at the oldest record the
\* channel retains. A write to a monitor that closed its end returns the error.
MonitorRecv(m) ==
    /\ mon_st[m] \in {"subscribed", "hungup"}
    /\ mon_pos[m] < Len(mon_queue[m])
    /\ IF Len(mon_queue[m]) - mon_pos[m] > BroadcastCapacity
       THEN /\ mon_pos' = [mon_pos EXCEPT ![m] = Len(mon_queue[m]) - BroadcastCapacity]
            /\ mon_st' = [mon_st EXCEPT ![m] = AfterLagged(@)]
            /\ UNCHANGED mon_out
       ELSE /\ mon_pos' = [mon_pos EXCEPT ![m] = @ + 1]
            /\ IF mon_st[m] = "hungup"
               THEN /\ mon_st' = [mon_st EXCEPT ![m] = "dropped"]
                    /\ UNCHANGED mon_out
               ELSE /\ mon_out' = [mon_out EXCEPT ![m] =
                                      Append(@, mon_queue[m][mon_pos[m] + 1])]
                    /\ UNCHANGED mon_st
    /\ UNCHANGED <<next_device_id, devices, mirror_map, fs, listeners, pc,
                   device_id, config, held, result, uinputVars, mon_queue,
                   add_subs>>
    /\ UNCHANGED fanVars

\* The monitor closes its end of the connection.
MonitorClose(m) ==
    /\ mon_st[m] = "subscribed"
    /\ mon_st' = [mon_st EXCEPT ![m] = "hungup"]
    /\ UNCHANGED <<next_device_id, devices, mirror_map, fs, listeners, pc,
                   device_id, config, held, result, uinputVars, mon_queue,
                   mon_pos, mon_out, add_subs>>
    /\ UNCHANGED fanVars

\* ------------------------------------------------------ input encoding
EV_SYN == 0
EV_KEY == 1
EV_REL == 2
EV_ABS == 3
\* The event type of a force-feedback record (0x15).
EV_FF == 21
SYN_REPORT == 0
JS_EVENT_BUTTON == 1
JS_EVENT_AXIS == 2
I16_MIN == -32768
I16_MAX == 32767

\* InputEvent values: one record shape for the four variants.
ButtonEvent(b, pressed) ==
    [kind |-> "Button", what |-> b, event_type |-> 0, code |-> 0,
     value |-> IF pressed THEN 1 ELSE 0]
AxisEvent(a, v) ==
    [kind |-> "Axis", what |-> a, event_type |-> 0, code |-> 0, value |-> v]
RawEvent(t, c, v) ==
    [kind |-> "Raw", what |-> "raw", event_type |-> t, code |-> c, value |-> v]
SyncEvent ==
    [kind |-> "Sync", what |-> "sync", event_type |-> 0, code |-> 0, value |-> 0]

\* Button::to_ev_code and Axis::to_ev_code on the controls the model uses.
ButtonCode(b) == IF b = "A" THEN BTN_SOUTH ELSE BTN_SOUTH + 1
AxisCode(a) == IF a = "LeftStickX" THEN ABS_X ELSE ABS_X + 1

\* A record on an event stream: type, code, value (the timestamp is left out).
LinuxInputEvent(t, c, v) == <<"ev", t, c, v>>
\* A record on a joystick stream: type, number, value.
LinuxJsEvent(t, n, v) == <<"js", t, n, v>>
\* The two writes of the handshake.
HandshakeLen(id) == <<"hs", "len", id, 0>>
HandshakeJson(id) == <<"hs", "json", id, 0>>

\* InputEvent::to_linux_input_event.
to_linux_input_event(e) ==
    CASE e.kind = "Button" -> LinuxInputEvent(EV_KEY, ButtonCode(e.what), e.value)
      [] e.kind = "Axis" -> LinuxInputEvent(EV_ABS, AxisCode(e.what), e.value)
      [] e.kind = "Raw" -> LinuxInputEvent(e.event_type, e.code, e.value)
      [] OTHER -> LinuxInputEvent(EV_SYN, SYN_REPORT, 0)

\* A has_sync that never looks at the records.
HasSyncAlways(linux_events) == TRUE

\* device.rs:267-272: is any record of the batch a SYN_REPORT.
HasSync(linux_events) ==
    \E i \in 1..Len(linux_events) :
        linux_events[i][2] = EV_SYN /\ linux_events[i][3] = SYN_REPORT

\* A buffer that ends with a SYN_REPORT even when the batch has no event.
SyncOnEmpty(events) ==
    LET linux_events == [i \in 1..Len(events) |-> to_linux_input_event(events[i])]
    IN IF ~HasSync(linux_events)
       THEN Append(linux_events, LinuxInputEvent(EV_SYN, SYN_REPORT, 0))
       ELSE linux_events

\* device.rs:263-283: the buffer send_evdev_events writes to every client.
EvdevData(events) ==
    LET linux_events == [i \in 1..Len(events) |-> to_linux_input_event(events[i])]
    IN IF ~HasSync(linux_events) /\ linux_events # <<>>
       THEN Append(linux_events, LinuxInputEvent(EV_SYN, SYN_REPORT, 0))
       ELSE linux_events

\* The controls of a device config: the model has one pad layout.
ConfigButtons(dev) == IF dev.js THEN <<"A">> ELSE <<>>
ConfigAxes(dev) == IF dev.js THEN <<"LeftStickX">> ELSE <<>>

\* iter().position(): the first index (from 0) of x in seq, or None.
Position(seq, x) ==
    IF \E i \in 1..Len(seq) : seq[i] = x
    THEN (CHOOSE i \in 1..Len(seq) : seq[i] = x /\ \A j \in 1..(i - 1) : seq[j] # x) - 1
    ELSE None

\* A value handed to the cast as it came.
NoClamp(v) == v

\* device.rs:339: value.clamp(i16::MIN as i32, i16::MAX as i32).
Clamp(v) == IF v < I16_MIN THEN I16_MIN ELSE IF v > I16_MAX THEN I16_MAX ELSE v

\* device.rs:340: `as i16` keeps the low 16 bits of the i32.
AsI16(v) ==
    LET low == v % (I16_MAX - I16_MIN + 1)
    IN IF low > I16_MAX THEN low - (I16_MAX - I16_MIN + 1) ELSE low

\* device.rs:323-351: the joystick records of one event, none or one.
JsEventsOf(dev, e) ==
    CASE e.kind = "Button" /\ Position(ConfigButtons(dev), e.what) # None ->
             <<LinuxJsEvent(JS_EVENT_BUTTON, Position(ConfigButtons(dev), e.what), e.value)>>
      [] e.kind = "Axis" /\ Position(ConfigAxes(dev), e.what) # None ->
             <<LinuxJsEvent(JS_EVENT_AXIS, Position(ConfigAxes(dev), e.what),
                           AsI16(Clamp(e.value)))>>
      [] OTHER -> <<>>

RECURSIVE JoystickData(_, _)
\* device.rs:318-360: the buffer send_joystick_events writes to every client.
JoystickData(dev, events) ==
    IF events = <<>> THEN <<>>
    ELSE JsEventsOf(dev, Head(events)) \o JoystickData(dev, Tail(events))

\* Vec::remove(i) with i counted from 0; out of range leaves the list alone.
RemoveAt(list, i) ==
    IF i + 1 \in 1..Len(list)
    THEN SubSeq(list, 1, i) \o SubSeq(list, i + 2, Len(list))
    ELSE list

RECURSIVE RemoveForward(_, _)
\* The removal loop without .rev(): smallest index first.
RemoveForward(list, disc) ==
    IF disc = <<>> THEN list
    ELSE RemoveForward(RemoveAt(list, Head(disc)), Tail(disc))

RECURSIVE RemoveDisconnected(_, _)
\* device.rs:301-304: remove the recorded indices, largest first.
RemoveDisconnected(list, disc) ==
    IF disc = <<>> THEN list
    ELSE RemoveDisconnected(RemoveAt(list, disc[Len(disc)]),
                            SubSeq(disc, 1, Len(disc) - 1))

\* ------------------------------------------------- consumer connections
\* The listener a connection goes to and the client list it ends up in.
ConnKind(k) == IF k \in EventConns THEN "event" ELSE "js"
ListOf(k, d) == IF k \in EventConns THEN clients[d] ELSE joystick_clients[d]

\* The accept loop pushes the write half before it has sent the handshake.
HandshakeOrderPushFirst == [step1 |-> "push", step2 |-> "len", step3 |-> "json"]

\* device.rs:143-166 and 224-240: the steps between accept() and the next accept().
HandshakeOrder == [step1 |-> "len", step2 |-> "json", step3 |-> "push"]

HandshakeSteps == {"step1", "step2", "step3"}
NextStep(st) ==
    CASE st = "step1" -> "step2" [] st = "step2" -> "step3" [] OTHER -> "done"

\* A lock().await that does not wait for the holder.
LockIgnored(lock, d) == TRUE

\* Mutex::lock().await returns only when nobody holds the mutex.
LockFree(lock, d) == lock[d] = "none"

\* A consumer connects to a device socket: the path exists and somebody listens.
ConsumerConnect(k, d) ==
    /\ conn_st[k] = "none"
    /\ <<ConnKind(k), d>> \in fs
    /\ <<ConnKind(k), d>> \in listeners
    /\ conn_st' = [conn_st EXCEPT ![k] = "queued"]
    /\ conn_dev' = [conn_dev EXCEPT ![k] = d]
    /\ UNCHANGED <<lifeVars, clients, joystick_clients, clients_lock,
                   joystick_lock, mode, wire, unread, sendVars, fbVars,
                   hostVars>>

\* device.rs:133 and 217: accept() returns the next connection of the backlog;
\* the loop is not in the middle of an earlier connection's handshake.
AcceptClient(k) ==
    /\ conn_st[k] = "queued"
    /\ \A o \in Conns \ {k} :
           (ConnKind(o) = ConnKind(k) /\ conn_dev[o] = conn_dev[k])
               => conn_st[o] \notin HandshakeSteps
    /\ conn_st' = [conn_st EXCEPT ![k] = "step1"]
    /\ UNCHANGED <<lifeVars, clients, joystick_clients, clients_lock,
                   joystick_lock, conn_dev, fbVars, hostVars, mode, wire, unread, sendVars>>

\* One write_all of the handshake: an error on a closed peer, otherwise the
\* unit is in the socket buffer (the write waits while the buffer is full).
HandshakeWrite(k, unit) ==
    IF mode[k] = "closed"
    THEN /\ conn_st' = [conn_st EXCEPT ![k] = "dropped"]
         /\ UNCHANGED <<wire, unread>>
    ELSE /\ unread[k] < BufCap
         /\ wire' = [wire EXCEPT ![k] = Append(@, unit)]
         /\ unread' = [unread EXCEPT ![k] = @ + 1]
         /\ conn_st' = [conn_st EXCEPT ![k] = NextStep(conn_st[k])]

\* device.rs:143-166 and 224-240: the next step of the handshake of connection k.
HandshakeStep(k, serialized) ==
    /\ conn_st[k] \in HandshakeSteps
    /\ LET op == HandshakeOrder[conn_st[k]]
           d == conn_dev[k]
       IN CASE op = "len" ->
                   /\ IF ~serialized
                      THEN /\ conn_st' = [conn_st EXCEPT ![k] = "dropped"]
                           /\ UNCHANGED <<wire, unread>>
                      ELSE HandshakeWrite(k, HandshakeLen(d))
                   /\ UNCHANGED <<clients, joystick_clients>>
            [] op = "json" ->
                   /\ serialized
                   /\ HandshakeWrite(k, HandshakeJson(d))
                   /\ UNCHANGED <<clients, joystick_clients>>
            [] OTHER ->
                   /\ serialized
                   /\ LockFree(IF k \in EventConns THEN clients_lock
                               ELSE joystick_lock, d)
                   /\ IF k \in EventConns
                      THEN /\ clients' = [clients EXCEPT ![d] = Append(@, k)]
                           /\ UNCHANGED joystick_clients
                      ELSE /\ joystick_clients' =
                                  [joystick_clients EXCEPT ![d] = Append(@, k)]
                           /\ UNCHANGED clients
                   /\ conn_st' = [conn_st EXCEPT ![k] = NextStep(conn_st[k])]
                   /\ UNCHANGED <<wire, unread>>
    /\ UNCHANGED <<lifeVars, clients_lock, joystick_lock, conn_dev, fbVars, hostVars, mode,
                   sendVars>>

\* The consumer reads everything its socket holds.
ConsumerRead(k) ==
    /\ mode[k] = "reading"
    /\ unread[k] > 0
    /\ unread' = [unread EXCEPT ![k] = 0]
    /\ UNCHANGED <<lifeVars, clients, joystick_clients, clients_lock,
                   joystick_lock, conn_st, conn_dev, fbVars, hostVars, mode, wire, sendVars>>

\* The consumer keeps its connection open and never reads again.
ConsumerStall(k) ==
    /\ mode[k] = "reading"
    /\ conn_st[k] # "none"
    /\ mode' = [mode EXCEPT ![k] = "stalled"]
    /\ UNCHANGED <<lifeVars, clients, joystick_clients, clients_lock,
                   joystick_lock, conn_st, conn_dev, fbVars, hostVars, wire, unread, sendVars>>

\* The consumer closes its connection.
ConsumerClose(k) ==
    /\ mode[k] # "closed"
    /\ conn_st[k] # "none"
    /\ mode' = [mode EXCEPT ![k] = "closed"]
    /\ UNCHANGED <<lifeVars, clients, joystick_clients, clients_lock,
                   joystick_lock, conn_st, conn_dev, fbVars, hostVars, wire, unread, sendVars>>

\* ------------------------------------------------------ the instance lock
\* What the frame of the host actions leaves alone.
notHostVars == <<lifeVars, clients, joystick_clients, clients_lock,
                 joystick_lock, conn_st, conn_dev, mode, wire, unread, sendVars,
                 fbVars>>

\* A flock that never finds the file locked.
FlockAlways(holder) == TRUE

\* lock.rs:20-22: flock(fd, LOCK_EX | LOCK_NB) returns 0 when no other open
\* file holds a lock on the file, and fails at once otherwise.
Flock(holder) == holder = NoManager

\* mod.rs:46-53: a manager process is started on the socket path and creates
\* the base directories.
ManagerDirs(m) ==
    /\ mgr_st[m] \in {"down", "failed"}
    /\ mgr_st' = [mgr_st EXCEPT ![m] = "dirs"]
    /\ UNCHANGED <<notHostVars, guardVars, open_st, lock_holder, sysfs_content>>

\* lock.rs:16: open the lock file, creating it if it is missing.
ManagerOpen(m) ==
    /\ mgr_st[m] = "dirs"
    /\ mgr_st' = [mgr_st EXCEPT ![m] = "opened"]
    /\ UNCHANGED <<notHostVars, guardVars, open_st, lock_holder, sysfs_content>>

\* lock.rs:18-33 and mod.rs:57: take the lock or return the error, which
\* Manager::new passes on; the file of a failed acquire is closed.
ManagerFlock(m) ==
    /\ mgr_st[m] = "opened"
    /\ IF Flock(lock_holder)
       THEN /\ mgr_st' = [mgr_st EXCEPT ![m] = "locked"]
            /\ lock_holder' = m
       ELSE /\ mgr_st' = [mgr_st EXCEPT ![m] = "failed"]
            /\ UNCHANGED lock_holder
    /\ UNCHANGED <<notHostVars, guardVars, open_st, sysfs_content>>

\* mod.rs:59-85: the broadcasters and the uinput emulator are built; an error
\* of any of them returns through `?` and drops the LockFile, whose file is
\* closed, which releases the lock.
ManagerBuilt(m, ok) ==
    /\ mgr_st[m] = "locked"
    /\ IF ok
       THEN /\ mgr_st' = [mgr_st EXCEPT ![m] = "running"]
            /\ UNCHANGED lock_holder
       ELSE /\ mgr_st' = [mgr_st EXCEPT ![m] = "failed"]
            /\ lock_holder' = NoManager
    /\ UNCHANGED <<notHostVars, guardVars, open_st, sysfs_content>>

\* lock.rs:37-41: the manager is dropped, and with it the LockFile and its File.
ManagerDrop(m) ==
    /\ mgr_st[m] = "running"
    /\ mgr_st' = [mgr_st EXCEPT ![m] = "down"]
    /\ lock_holder' = NoManager
    /\ UNCHANGED <<notHostVars, guardVars, open_st, sysfs_content>>

\* ------------------------------------------------------ sysfs projection
\* A bitmask is the set of its bit positions; a capability file is the sequence
\* of its hexadecimal words, the most significant first.
\* The bits of a capability file: word i of n counts from bit 64 * (n - i).
BitsOf(words) ==
    UNION {{64 * (Len(words) - i) + b : b \in words[i]} : i \in 1..Len(words)}

\* sysfs.rs:259-271: calculate_ev_bits, one word.
calculate_ev_bits(cfg) ==
    << {0} \cup (IF cfg.buttons # {} THEN {EV_KEY} ELSE {})
           \cup (IF cfg.axes # {} THEN {EV_ABS} ELSE {}) >>

\* sysfs.rs:279: [0u64; 12].
KeyWordCount == 12

\* sysfs.rs:281-288: the words of the key mask, word 0 first; a code beyond
\* them is left out.
KeyWords(cfg) ==
    [index \in 0..(KeyWordCount - 1) |->
        {code % 64 : code \in {c \in cfg.buttons : c \div 64 = index}}]

\* sysfs.rs:274-303: calculate_key_bits: the words from the highest that is
\* not zero down to word 0, or "0".
calculate_key_bits(cfg) ==
    IF cfg.buttons = {} THEN << {} >>
    ELSE LET bits == KeyWords(cfg)
             used == {i \in DOMAIN bits : bits[i] # {}}
         IN IF used = {} THEN << {} >>
            ELSE LET top == CHOOSE i \in used : \A j \in used : j <= i
                 IN [k \in 1..(top + 1) |-> bits[top + 1 - k]]

\* sysfs.rs:306-321: calculate_abs_bits: one word, codes from 64 on left out.
calculate_abs_bits(cfg) ==
    IF cfg.axes = {} THEN << {} >>
    ELSE << {code \in cfg.axes : code < 64} >>

\* ioctl_handler.rs:268-280: the event types EVIOCGBIT(0) reports into a
\* buffer of `size` bytes: SYN, KEY, ABS, and FF in the third byte.
EviocgbitEv(size) ==
    (IF size > 0 THEN {EV_SYN, EV_KEY, EV_ABS} ELSE {}) \cup
    (IF size > 2 THEN {EV_FF} ELSE {})

\* sysfs.rs:128-131: the dev file of event{id}: "13:" and the event node's
\* name without its "event" prefix.
DevFile(id) == <<13, id>>

\* sysfs.rs:161-162: the name of the udev data file, c13:{64 + id}.
UdevDataName(id) == <<13, 64 + id>>

\* sysfs.rs:9-20: create_device_files writes the subtree of device id.
SysfsCreate(id, cfg) ==
    /\ sysfs_content' = [sysfs_content EXCEPT ![id] =
           [ev |-> calculate_ev_bits(cfg),
            key |-> calculate_key_bits(cfg),
            abs |-> calculate_abs_bits(cfg),
            dev |-> DevFile(id),
            udev_data |-> UdevDataName(id),
            config |-> cfg]]
    /\ UNCHANGED <<notHostVars, guardVars, open_st, mgr_st, lock_holder>>

\* sysfs.rs:324-343: remove_device_files.
SysfsRemove(id) ==
    /\ sysfs_content[id] # NoFiles
    /\ sysfs_content' = [sysfs_content EXCEPT ![id] = NoFiles]
    /\ UNCHANGED <<notHostVars, guardVars, open_st, mgr_st, lock_holder>>

\* ------------------------------------------------- the manager's mutexes
\* The steps of a handler that matter to the mutexes: taking a guard, letting
\* it go, a piece of work, and a branch that may return early.
Lock(m) == [op |-> "lock", arg |-> m]
Unlock(m) == [op |-> "unlock", arg |-> m]
Work(w) == [op |-> "work", arg |-> w]
Branch == [op |-> "branch", arg |-> "return"]

\* The requests a control session and a uinput session run; "cleanup" is the
\* end of a uinput session.
ControlHandlers == {"CreateDevice", "DestroyDevice", "SendInput", "ListDevices"}
UinputHandlers == {"DevCreate", "DevDestroy", "WriteEvents", "cleanup"}
HandlersOf(t) == IF t \in ControlSessions THEN ControlHandlers ELSE UinputHandlers

\* mirror_to_uinput_devices (uinput.rs:148-188): returns on an empty batch,
\* copies the mirror's id under the map's guard, clones the device under the
\* registry's guard, and sends with neither.
MirrorSteps ==
    <<Branch,
      Lock("mirror_map"), Work("lookup"), Unlock("mirror_map"), Branch,
      Lock("devices"), Work("lookup"), Unlock("devices"), Branch,
      Work("send")>>

\* A SendInput that keeps the registry's guard until the events are sent.
StepsHolding(h) ==
    <<Lock("devices"), Work("lookup"), Branch, Work("send"), Unlock("devices")>>
        \o MirrorSteps \o <<Work("reply")>>

\* The steps of each handler, in the order of its code.  A guard bound by
\* `let` in a block is let go at the end of the block; a guard that is a
\* temporary of a statement is let go at the end of the statement, after the
\* value the statement discards has been dropped.
Steps(h) ==
    CASE h = "CreateDevice" ->              \* mod.rs:246-284
            <<Lock("next_device_id"), Work("alloc"), Unlock("next_device_id"),
              Work("construct"), Branch,
              Lock("devices"), Work("insert"), Unlock("devices"),
              Work("broadcast"), Work("reply")>>
      [] h = "DestroyDevice" ->             \* mod.rs:285-310
            <<Lock("devices"), Work("remove"), Unlock("devices"), Branch,
              Work("broadcast"), Work("drop"), Work("reply")>>
      [] h = "SendInput" ->                 \* mod.rs:311-337
            <<Lock("devices"), Work("lookup"), Unlock("devices"), Branch,
              Work("send")>> \o MirrorSteps \o <<Work("reply")>>
      [] h = "ListDevices" ->               \* mod.rs:338-352
            <<Lock("devices"), Work("list"), Unlock("devices"), Work("reply")>>
      [] h = "DevCreate" ->                 \* uinput.rs:408-476
            <<Lock("devices"), Work("lookup"), Unlock("devices"), Branch,
              Lock("next_device_id"), Work("alloc"), Unlock("next_device_id"),
              Work("construct"), Branch,
              Lock("devices"), Work("insert"), Unlock("devices"),
              Lock("mirror_map"), Work("insert"), Unlock("mirror_map"),
              Work("reply")>>
      [] h = "DevDestroy" ->                \* uinput.rs:478-510
            <<Branch,
              Lock("devices"), Work("remove"), Work("drop"), Unlock("devices"),
              Lock("mirror_map"), Work("remove"), Unlock("mirror_map"),
              Work("reply")>>
      [] h = "WriteEvents" ->               \* uinput.rs:512-593
            <<Branch,
              Lock("devices"), Work("lookup"), Unlock("devices"), Branch,
              Work("send"), Work("reply")>>
      [] h = "cleanup" ->                   \* uinput.rs:303-313
            <<Branch,
              Lock("devices"), Work("remove"), Work("drop"), Unlock("devices"),
              Work("close")>>

\* The step a task is about to take; an idle task is about to read a request.
NextStepOf(t) ==
    IF at[t] = Idle THEN Work("read") ELSE Steps(at[t][1])[at[t][2]]

\* Where a task is after the step it is at: the next step, or idle after the
\* last one.
After(t) ==
    IF at[t][2] = Len(Steps(at[t][1])) THEN Idle ELSE <<at[t][1], at[t][2] + 1>>

\* A task reads a request and enters its handler.
GuardBegin(t, h) ==
    /\ at[t] = Idle
    /\ h \in HandlersOf(t)
    /\ at' = [at EXCEPT ![t] = <<h, 1>>]
    /\ UNCHANGED <<notHostVars, open_st, mgr_st, lock_holder, sysfs_content, guard>>

\* Mutex::lock().await: the task goes on once nobody holds the guard, itself
\* included (the mutex is not reentrant).
GuardLock(t) ==
    /\ at[t] # Idle
    /\ NextStepOf(t).op = "lock"
    /\ guard[NextStepOf(t).arg] = NoTask
    /\ guard' = [guard EXCEPT ![NextStepOf(t).arg] = t]
    /\ at' = [at EXCEPT ![t] = After(t)]
    /\ UNCHANGED <<notHostVars, open_st, mgr_st, lock_holder, sysfs_content>>

\* The guard goes out of scope.
GuardUnlock(t) ==
    /\ at[t] # Idle
    /\ NextStepOf(t).op = "unlock"
    /\ guard' = [guard EXCEPT ![NextStepOf(t).arg] = NoTask]
    /\ at' = [at EXCEPT ![t] = After(t)]
    /\ UNCHANGED <<notHostVars, open_st, mgr_st, lock_holder, sysfs_content>>

\* One piece of work of the handler.
GuardWork(t) ==
    /\ at[t] # Idle
    /\ NextStepOf(t).op = "work"
    /\ at' = [at EXCEPT ![t] = After(t)]
    /\ UNCHANGED <<notHostVars, open_st, mgr_st, lock_holder, sysfs_content, guard>>

\* A match or an early return: the handler goes on, or goes to its last step.
GuardBranch(t, returns) ==
    /\ at[t] # Idle
    /\ NextStepOf(t).op = "branch"
    /\ at' = [at EXCEPT ![t] = IF returns
                               THEN <<at[t][1], Len(Steps(at[t][1]))>>
                               ELSE After(t)]
    /\ UNCHANGED <<notHostVars, open_st, mgr_st, lock_holder, sysfs_content, guard>>

\* ------------------------------------------- the launcher's open handler
\* What the open handler leaves alone: everything but the consumer's end of
\* the connection it makes.
openRest == <<next_device_id, devices, mirror_map, fs, listeners, pc, device_id,
              config, held, result, relayVars, requests, resp_read, req_read,
              responses, monVars, add_subs, clients, joystick_clients,
              clients_lock, joystick_lock, wire, sendVars, fbVars, mgr_st,
              lock_holder, sysfs_content, guardVars>>

\* What the manager has written to the connection of path p: the two parts of
\* a device's handshake on a device socket, the responses of handle_client on
\* the uinput socket.
Arrived(p) ==
    IF p = UinputPath THEN Len(responses[OpenConn(p)]) - resp_read[OpenConn(p)]
    ELSE Len(wire[OpenConn(p)])

\* handler.rs:90-126: the path is redirected to the socket of the manager and
\* UnixStream::connect succeeds: somebody listens on it. The handler goes on
\* to receive_handshake.
OpenConnect(p) ==
    /\ open_st[p] = "start"
    /\ IF p = UinputPath
       THEN /\ \E m \in Managers : mgr_st[m] = "running"
            /\ client[OpenConn(p)] = "none"
            /\ client' = [client EXCEPT ![OpenConn(p)] = "awaiting"]
            /\ UNCHANGED <<conn_st, conn_dev>>
       ELSE /\ conn_st[OpenConn(p)] = "none"
            /\ <<ConnKind(OpenConn(p)), 0>> \in fs
            /\ <<ConnKind(OpenConn(p)), 0>> \in listeners
            /\ conn_st' = [conn_st EXCEPT ![OpenConn(p)] = "queued"]
            /\ conn_dev' = [conn_dev EXCEPT ![OpenConn(p)] = 0]
            /\ UNCHANGED client
    /\ open_st' = [open_st EXCEPT ![p] = "handshake"]
    /\ UNCHANGED <<openRest, mode, unread>>

\* handler.rs:129-190 and 195-221: receive_handshake reads the length prefix
\* and the payload the manager wrote; the descriptor is injected and the open
\* returns it.
ReceiveHandshake(p) ==
    /\ open_st[p] = "handshake"
    /\ Arrived(p) >= 2
    /\ open_st' = [open_st EXCEPT ![p] = "opened"]
    /\ IF p = UinputPath
       THEN /\ client' = [client EXCEPT ![OpenConn(p)] = "ready"]
            /\ UNCHANGED unread
       ELSE /\ unread' = [unread EXCEPT ![OpenConn(p)] = 0]
            /\ UNCHANGED client
    /\ UNCHANGED <<openRest, conn_st, conn_dev, mode>>

\* handler.rs:129-135 and 197-201: read_exact fails, because the manager closed
\* the connection or because the read timeout of five seconds passed with the
\* handshake not there; the stream is dropped and the open returns EIO.
HandshakeFails(p) ==
    /\ open_st[p] = "handshake"
    /\ Arrived(p) < 2
    /\ open_st' = [open_st EXCEPT ![p] = "eio"]
    /\ IF p = UinputPath
       THEN /\ client' = [client EXCEPT ![OpenConn(p)] = "closed"]
            /\ UNCHANGED mode
       ELSE /\ mode' = [mode EXCEPT ![OpenConn(p)] = "closed"]
            /\ UNCHANGED client
    /\ UNCHANGED <<openRest, conn_st, conn_dev, unread>>

\* ------------------------------------------------------ force feedback
\* What the frame of the feedback actions leaves alone.
notFbVars == <<lifeVars, clients, joystick_clients, clients_lock, joystick_lock,
               conn_st, conn_dev, mode, wire, unread, sendVars, hostVars>>

\* A subscriber connects to a device's feedback socket.
FeedbackConnect(f, d) ==
    /\ fb_st[f] = "none"
    /\ <<"feedback", d>> \in fs
    /\ <<"feedback", d>> \in listeners
    /\ fb_st' = [fb_st EXCEPT ![f] = "queued"]
    /\ fb_dev' = [fb_dev EXCEPT ![f] = d]
    /\ UNCHANGED <<notFbVars, feedback_clients, fb_wire, ff_in, ff_read,
                   reader_dead>>

\* device.rs:71-78: the feedback accept loop pushes the stream, with no
\* handshake.
FeedbackAccept(f) ==
    /\ fb_st[f] = "queued"
    /\ fb_st' = [fb_st EXCEPT ![f] = "listed"]
    /\ feedback_clients' = [feedback_clients EXCEPT ![fb_dev[f]] = Append(@, f)]
    /\ UNCHANGED <<notFbVars, fb_dev, fb_wire, ff_in, ff_read, reader_dead>>

\* The subscriber closes its connection.
FeedbackClose(f) ==
    /\ fb_st[f] = "listed"
    /\ fb_st' = [fb_st EXCEPT ![f] = "hungup"]
    /\ UNCHANGED <<notFbVars, feedback_clients, fb_dev, fb_wire, ff_in, ff_read,
                   reader_dead>>

\* The consumer writes one 24-byte record into its event socket.
ConsumerWrite(k, rec) ==
    /\ conn_st[k] # "none"
    /\ mode[k] # "closed"
    /\ ff_in' = [ff_in EXCEPT ![k] = Append(@, rec)]
    /\ UNCHANGED <<notFbVars, feedback_clients, fb_st, fb_dev, fb_wire, ff_read,
                   reader_dead>>

\* device.rs:173-174: std::ptr::read of a LinuxInputEvent (repr(C), alignment
\* 8) through the pointer of a [u8; 24] buffer (alignment 1). Where the buffer
\* stands in the task is the compiler's choice; on a misaligned buffer the read
\* is undefined: the build yields the event, or stops the task at the read.
ReadOutcomes == {"event", "abort"}

\* device.rs:181-196: write the record to every feedback stream of the list,
\* under its mutex, and remove the streams whose write failed.
Forward(d, rec) ==
    LET subs == feedback_clients[d]
        Wrote(f) == fb_st[f] = "listed"
    IN /\ fb_wire' = [f \in FbConns |->
                         IF f \in Range(subs) /\ Wrote(f)
                         THEN Append(fb_wire[f], rec) ELSE fb_wire[f]]
       /\ feedback_clients' = [feedback_clients EXCEPT ![d] = SelectSeq(subs, Wrote)]
       /\ fb_st' = [f \in FbConns |->
                       IF f \in Range(subs) /\ ~ Wrote(f) THEN "removed" ELSE fb_st[f]]

\* device.rs:170-199: one turn of the reader task spawned for an event-stream
\* connection after its handshake: read_exact takes the next record; an EV_FF
\* record is forwarded, any other is dropped.
Reader(k, outcome) ==
    /\ k \in EventConns
    /\ conn_st[k] = "done"
    /\ k \notin reader_dead
    /\ ff_read[k] < Len(ff_in[k])
    /\ ff_read' = [ff_read EXCEPT ![k] = @ + 1]
    /\ LET rec == ff_in[k][ff_read[k] + 1]
       IN IF outcome = "abort"
          THEN /\ reader_dead' = reader_dead \cup {k}
               /\ UNCHANGED <<feedback_clients, fb_st, fb_wire>>
          ELSE /\ UNCHANGED reader_dead
               /\ IF rec[2] = EV_FF
                  THEN Forward(conn_dev[k], rec)
                  ELSE UNCHANGED <<feedback_clients, fb_st, fb_wire>>
    /\ UNCHANGED <<notFbVars, fb_dev, ff_in>>

\* device.rs:172: read_exact fails once the consumer has closed and its records
\* are taken; the task ends.
ReaderEof(k) ==
    /\ k \in EventConns
    /\ conn_st[k] = "done"
    /\ k \notin reader_dead
    /\ mode[k] = "closed"
    /\ ff_read[k] = Len(ff_in[k])
    /\ reader_dead' = reader_dead \cup {k}
    /\ UNCHANGED <<notFbVars, feedback_clients, fb_st, fb_dev, fb_wire, ff_in,
                   ff_read>>

\* ---------------------------------------------------------- SendInput
\* mod.rs:311-317: look the device up and clone its Arc.
SendInput_Lookup(s, id, events) ==
    /\ s \in ControlSessions
    /\ pc[s] = "idle"
    /\ sends' = sends + 1
    /\ IF id \in DOMAIN devices
       THEN /\ held' = [held EXCEPT ![s] = devices[id]]
            /\ target' = [target EXCEPT ![s] = devices[id]]
            /\ batch' = [batch EXCEPT ![s] = events]
            /\ device_id' = [device_id EXCEPT ![s] = id]
            /\ pc' = [pc EXCEPT ![s] = "ev_send"]
            /\ UNCHANGED result
       ELSE /\ result' = [result EXCEPT ![s] = NotFound]
            /\ pc' = [pc EXCEPT ![s] = "respond"]
            /\ UNCHANGED <<held, target, batch, device_id>>
    /\ ReadsLine(s, "SendInput", <<id, events>>)
    /\ UNCHANGED <<next_device_id, devices, mirror_map, fs, listeners, config,
                   relayVars, shimVars, responses, monVars, add_subs, clients,
                   joystick_clients, clients_lock, joystick_lock, conn_st,
                   conn_dev, fbVars, hostVars, mode, wire, unread, data, idx, off, disconnected,
                   failed>>

\* The loop variables at the top of `for (idx, client) in clients.iter_mut()`.
StartLoop(s, buf) ==
    /\ data' = [data EXCEPT ![s] = buf]
    /\ idx' = [idx EXCEPT ![s] = 1]
    /\ off' = [off EXCEPT ![s] = 0]
    /\ disconnected' = [disconnected EXCEPT ![s] = <<>>]
    /\ UNCHANGED failed

EndLoop(s) ==
    /\ data' = [data EXCEPT ![s] = <<>>]
    /\ idx' = [idx EXCEPT ![s] = 0]
    /\ off' = [off EXCEPT ![s] = 0]
    /\ disconnected' = [disconnected EXCEPT ![s] = <<>>]
    /\ UNCHANGED failed

\* device.rs:290-298 and 367-375: client.write_all(&data).await on connection k.
\* No byte left: Ok. Peer closed: Err, the index is recorded. Otherwise as many
\* units as the socket buffer takes are written; the call returns when all are
\* written and waits while the buffer is full.
WriteAll(s, k) ==
    LET left == Len(data[s]) - off[s]
        space == BufCap - unread[k]
        n == IF left < space THEN left ELSE space
    IN CASE left = 0 ->
                /\ idx' = [idx EXCEPT ![s] = @ + 1]
                /\ off' = [off EXCEPT ![s] = 0]
                /\ UNCHANGED <<wire, unread, disconnected, failed>>
         [] left > 0 /\ mode[k] = "closed" ->
                /\ disconnected' = [disconnected EXCEPT ![s] = Append(@, idx[s] - 1)]
                /\ failed' = [failed EXCEPT ![s] = @ \cup {k}]
                /\ idx' = [idx EXCEPT ![s] = @ + 1]
                /\ off' = [off EXCEPT ![s] = 0]
                /\ UNCHANGED <<wire, unread>>
         [] OTHER ->
                /\ space > 0
                /\ wire' = [wire EXCEPT ![k] =
                               @ \o SubSeq(data[s], off[s] + 1, off[s] + n)]
                /\ unread' = [unread EXCEPT ![k] = @ + n]
                /\ IF n = left
                   THEN /\ idx' = [idx EXCEPT ![s] = @ + 1]
                        /\ off' = [off EXCEPT ![s] = 0]
                   ELSE /\ off' = [off EXCEPT ![s] = @ + n]
                        /\ UNCHANGED idx
                /\ UNCHANGED <<disconnected, failed>>

\* device.rs:262-287: build the buffer, then take the lock of `clients`.
Evdev_Lock(s) ==
    /\ pc[s] = "ev_send"
    /\ LockFree(clients_lock, target[s].id)
    /\ clients_lock' = [clients_lock EXCEPT ![target[s].id] = s]
    /\ StartLoop(s, EvdevData(batch[s]))
    /\ pc' = [pc EXCEPT ![s] = "ev_write"]
    /\ UNCHANGED <<next_device_id, devices, mirror_map, fs, listeners, device_id,
                   config, held, result, uinputVars, monVars, add_subs, clients,
                   joystick_clients, joystick_lock, conn_st, conn_dev, fbVars, hostVars, mode,
                   wire, unread, batch, target, sends>>

\* device.rs:289-299: one write_all of the loop over the event clients.
Evdev_Write(s) ==
    /\ pc[s] = "ev_write"
    /\ idx[s] <= Len(clients[target[s].id])
    /\ WriteAll(s, clients[target[s].id][idx[s]])
    /\ UNCHANGED <<lifeVars, clients, joystick_clients, clients_lock,
                   joystick_lock, conn_st, conn_dev, fbVars, hostVars, mode, batch, target, data,
                   sends>>

\* A handler that answers after the first send_events.
SkipMirror(s) == "mirrored"

\* The pc after send_events returned: the source device's send is followed by
\* the mirror lookup, the mirror device's send by the response; the send of a
\* WriteEvents request returns into process_request.
AfterSend(s) ==
    IF s \in UinputSessions THEN "we_done"
    ELSE IF target[s] = held[s] THEN "mirror" ELSE "mirrored"

\* device.rs:301-307: remove the failed clients, release the lock; then
\* send_joystick_events, which returns at once without a joystick node.
Evdev_Finish(s) ==
    /\ pc[s] = "ev_write"
    /\ idx[s] > Len(clients[target[s].id])
    /\ clients' = [clients EXCEPT ![target[s].id] =
                      RemoveDisconnected(@, disconnected[s])]
    /\ clients_lock' = [clients_lock EXCEPT ![target[s].id] = "none"]
    /\ EndLoop(s)
    /\ pc' = [pc EXCEPT ![s] = IF target[s].js THEN "js_send" ELSE AfterSend(s)]
    /\ UNCHANGED <<next_device_id, devices, mirror_map, fs, listeners, device_id,
                   config, held, result, uinputVars, monVars, add_subs,
                   joystick_clients, joystick_lock, conn_st, conn_dev, fbVars, hostVars, mode,
                   wire, unread, batch, target, sends>>

\* device.rs:315-364: build the joystick buffer, take the lock of `joystick_clients`.
Joystick_Lock(s) ==
    /\ pc[s] = "js_send"
    /\ LockFree(joystick_lock, target[s].id)
    /\ joystick_lock' = [joystick_lock EXCEPT ![target[s].id] = s]
    /\ StartLoop(s, JoystickData(target[s], batch[s]))
    /\ pc' = [pc EXCEPT ![s] = "js_write"]
    /\ UNCHANGED <<next_device_id, devices, mirror_map, fs, listeners, device_id,
                   config, held, result, uinputVars, monVars, add_subs, clients,
                   joystick_clients, clients_lock, conn_st, conn_dev, fbVars, hostVars, mode,
                   wire, unread, batch, target, sends>>

\* device.rs:366-376: one write_all of the loop over the joystick clients.
Joystick_Write(s) ==
    /\ pc[s] = "js_write"
    /\ idx[s] <= Len(joystick_clients[target[s].id])
    /\ WriteAll(s, joystick_clients[target[s].id][idx[s]])
    /\ UNCHANGED <<lifeVars, clients, joystick_clients, clients_lock,
                   joystick_lock, conn_st, conn_dev, fbVars, hostVars, mode, batch, target, data,
                   sends>>

\* device.rs:378-382: remove the failed joystick clients, release the lock.
Joystick_Finish(s) ==
    /\ pc[s] = "js_write"
    /\ idx[s] > Len(joystick_clients[target[s].id])
    /\ joystick_clients' = [joystick_clients EXCEPT ![target[s].id] =
                               RemoveDisconnected(@, disconnected[s])]
    /\ joystick_lock' = [joystick_lock EXCEPT ![target[s].id] = "none"]
    /\ EndLoop(s)
    /\ pc' = [pc EXCEPT ![s] = AfterSend(s)]
    /\ UNCHANGED <<next_device_id, devices, mirror_map, fs, listeners, device_id,
                   config, held, result, uinputVars, monVars, add_subs, clients,
                   clients_lock, conn_st, conn_dev, fbVars, hostVars, mode, wire, unread, batch,
                   target, sends>>

\* mod.rs:326-336 and the end of the arm: the response is InputSent, the
\* handler's Arc of the device is released.
SendInput_Reply(s) ==
    /\ fs' = ReleaseFiles(fs, held[s])
    /\ held' = [held EXCEPT ![s] = NoDevice]
    /\ target' = [target EXCEPT ![s] = NoDevice]
    /\ batch' = [batch EXCEPT ![s] = <<>>]
    /\ failed' = [failed EXCEPT ![s] = {}]
    /\ result' = [result EXCEPT ![s] = Result("InputSent", device_id[s])]
    /\ pc' = [pc EXCEPT ![s] = "respond"]

\* uinput.rs:148-177: no event, no mapping or no mirror device: nothing is
\* mirrored. Otherwise the mirror device's Arc is cloned and send_events runs on it.
SendInput_Mirror(s) ==
    /\ pc[s] = "mirror"
    /\ IF /\ batch[s] # <<>>
          /\ device_id[s] \in DOMAIN mirror_map
          /\ mirror_map[device_id[s]] \in DOMAIN devices
       THEN /\ target' = [target EXCEPT ![s] = devices[mirror_map[device_id[s]]]]
            /\ pc' = [pc EXCEPT ![s] = "ev_send"]
            /\ UNCHANGED <<fs, held, batch, result, failed>>
       ELSE SendInput_Reply(s)
    /\ UNCHANGED <<next_device_id, devices, mirror_map, listeners, device_id,
                   config, uinputVars, monVars, add_subs, clients,
                   joystick_clients, clients_lock, joystick_lock, conn_st,
                   conn_dev, fbVars, hostVars, mode, wire, unread, data, idx, off, disconnected,
                   sends>>

\* uinput.rs:178-187: the mirror send returned; its Arc is released.
SendInput_Mirrored(s) ==
    /\ pc[s] = "mirrored"
    /\ fs' = ReleaseFiles(ReleaseFiles(fs, target[s]), held[s])
    /\ held' = [held EXCEPT ![s] = NoDevice]
    /\ target' = [target EXCEPT ![s] = NoDevice]
    /\ batch' = [batch EXCEPT ![s] = <<>>]
    /\ failed' = [failed EXCEPT ![s] = {}]
    /\ result' = [result EXCEPT ![s] = Result("InputSent", device_id[s])]
    /\ pc' = [pc EXCEPT ![s] = "respond"]
    /\ UNCHANGED <<next_device_id, devices, mirror_map, listeners, device_id,
                   config, uinputVars, monVars, add_subs, clients,
                   joystick_clients, clients_lock, joystick_lock, conn_st,
                   conn_dev, fbVars, hostVars, mode, wire, unread, data, idx, off, disconnected,
                   sends>>

\* ------------------------------------------- uinput requests on the wire
\* A handle_client that answers every request.
AnswersEverything(kind) == FALSE

\* uinput.rs:250: matches!(request, UinputRequest::WriteEvents { .. }).
is_write_events(kind) == kind = "WriteEvents"

\* uinput.rs:266-275: after process_request the loop continues without a
\* response for WriteEvents and goes on to write the response otherwise.
AfterRequest(kind) == IF is_write_events(kind) THEN "idle" ELSE "respond"
SentResponse(kind, r) == IF is_write_events(kind) THEN NoResult ELSE r

\* The requests that only change the session's UinputDeviceState.
SetupKinds == {"SetEvBit", "SetKeyBit", "SetAbsBit", "SetRelBit", "AbsSetup", "DevSetup"}
\* The requests send_uinput_request sends (syscalls.rs:555-632).
AnsweredKinds == SetupKinds \cup {"DevCreate", "DevDestroy"}

\* A message on the wire: the length its prefix announces, and what its body
\* parses to: a request of some kind, or "Malformed" when from_bytes fails.
Frame(len, kind, events) == [kind |-> kind, events |-> events, len |-> len]
\* syscalls.rs:570-584: the shim writes the serialized request behind its length;
\* the JSON of a request is never empty and grows with the events it carries.
Request(kind, events) == Frame(1 + Len(events), kind, events)

\* uinput.rs:326-406: the six arms that record into `state` and return success.
Setup(u, kind) ==
    /\ u \in UinputSessions
    /\ kind \in SetupKinds
    /\ pc[u] = "idle"
    /\ Reads(u, kind)
    /\ state_keys' = [state_keys EXCEPT ![u] =
                         IF kind = "SetKeyBit" THEN @ \cup {BTN_SOUTH} ELSE @]
    /\ state_abs' = [state_abs EXCEPT ![u] =
                        IF kind \in {"SetAbsBit", "AbsSetup"} THEN @ \cup {ABS_X} ELSE @]
    /\ result' = [result EXCEPT ![u] = Result("Ok", None)]
    /\ pc' = [pc EXCEPT ![u] = "respond"]
    /\ UNCHANGED <<next_device_id, devices, mirror_map, fs, listeners, device_id,
                   config, held, shimVars, responses, created_device_id,
                   bound_device_id, source_device_id, monVars, add_subs>>
    /\ UNCHANGED fanVars

\* A filter that keeps every record, whatever its type and code.
KeepsAll(e) == TRUE
\* uinput.rs:538-552: the filter_map over the written records.
Convertible(e) ==
    \/ e[2] = EV_KEY /\ e[3] \in KnownButtonCodes
    \/ e[2] = EV_ABS /\ e[3] \in KnownAxisCodes
    \/ e[2] = EV_SYN
FromLinux(e) ==
    CASE e[2] = EV_KEY -> ButtonEvent("A", e[4] # 0)
      [] e[2] = EV_ABS -> AxisEvent("LeftStickX", e[4])
      [] OTHER -> SyncEvent
InputEventsOf(events) ==
    LET kept == SelectSeq(events, Convertible)
    IN [i \in 1..Len(kept) |-> FromLinux(kept[i])]

\* uinput.rs:512-567 WriteEvents: nothing to forward, or the session's device is
\* looked up and its Arc cloned for send_events. process_request's
\* bound_device_id is handle_client's created_device_id (uinput.rs:257-258).
WriteEvents_Lookup(u) ==
    /\ u \in UinputSessions
    /\ Wired(u)
    /\ pc[u] = "idle"
    /\ Reads(u, "WriteEvents")
    /\ LET events == requests[u][req_read[u] + 1].events
           id == created_device_id[u]
       IN IF \/ events = <<>>
             \/ id = None
             \/ InputEventsOf(events) = <<>>
             \/ id \notin DOMAIN devices
          THEN /\ pc' = [pc EXCEPT ![u] = AfterRequest("WriteEvents")]
               /\ result' = [result EXCEPT ![u] =
                                SentResponse("WriteEvents", Result("Ok", None))]
               /\ UNCHANGED <<held, target, batch, device_id>>
          ELSE /\ held' = [held EXCEPT ![u] = devices[id]]
               /\ target' = [target EXCEPT ![u] = devices[id]]
               /\ batch' = [batch EXCEPT ![u] = InputEventsOf(events)]
               /\ device_id' = [device_id EXCEPT ![u] = id]
               /\ pc' = [pc EXCEPT ![u] = "ev_send"]
               /\ UNCHANGED result
    /\ UNCHANGED <<next_device_id, devices, mirror_map, fs, listeners, config,
                   state_keys, state_abs, shimVars, responses, created_device_id,
                   bound_device_id, source_device_id, monVars, add_subs, clients,
                   joystick_clients, clients_lock, joystick_lock, conn_st,
                   conn_dev, fbVars, hostVars, mode, wire, unread, data, idx, off, disconnected,
                   failed, sends>>

\* uinput.rs:568-590 and 266-272: send_events returned, the Arc is released, the
\* response is built and, for WriteEvents, dropped.
WriteEvents_Done(u) ==
    /\ pc[u] = "we_done"
    /\ fs' = ReleaseFiles(fs, held[u])
    /\ held' = [held EXCEPT ![u] = NoDevice]
    /\ target' = [target EXCEPT ![u] = NoDevice]
    /\ batch' = [batch EXCEPT ![u] = <<>>]
    /\ failed' = [failed EXCEPT ![u] = {}]
    /\ device_id' = [device_id EXCEPT ![u] = None]
    /\ result' = [result EXCEPT ![u] = SentResponse("WriteEvents", Result("Ok", None))]
    /\ pc' = [pc EXCEPT ![u] = AfterRequest("WriteEvents")]
    /\ UNCHANGED <<next_device_id, devices, mirror_map, listeners, config,
                   uinputVars, monVars, add_subs, clients, joystick_clients,
                   clients_lock, joystick_lock, conn_st, conn_dev, fbVars, hostVars, mode, wire,
                   unread, data, idx, off, disconnected, sends>>

\* The shim leaves the manager's state alone.
ManagerUnchanged ==
    /\ UNCHANGED <<next_device_id, devices, mirror_map, fs, listeners, pc,
                   device_id, config, held, result, state_keys, state_abs,
                   req_read, responses, created_device_id, bound_device_id,
                   source_device_id, monVars, add_subs>>
    /\ UNCHANGED fanVars

\* syscalls.rs:571-590 send_uinput_request: the request is written and flushed
\* with the connection locked; the caller then waits for the response.
ShimRequest(u, kind) ==
    /\ kind \in AnsweredKinds
    /\ client[u] = "ready"
    /\ requests' = [requests EXCEPT ![u] = Append(@, Request(kind, <<>>))]
    /\ client' = [client EXCEPT ![u] = "awaiting"]
    /\ UNCHANGED resp_read
    /\ ManagerUnchanged

\* syscalls.rs:848-868 handle_uinput_write: the records are written and the call
\* returns without reading.
ShimWriteEvents(u, events) ==
    /\ events # <<>>
    /\ client[u] = "ready"
    /\ requests' = [requests EXCEPT ![u] = Append(@, Request("WriteEvents", events))]
    /\ UNCHANGED <<client, resp_read>>
    /\ ManagerUnchanged

\* syscalls.rs:592-631: the length prefix and the body of the next response.
ShimRead(u) ==
    /\ client[u] = "awaiting"
    /\ resp_read[u] < Len(responses[u])
    /\ resp_read' = [resp_read EXCEPT ![u] = @ + 1]
    /\ client' = [client EXCEPT ![u] = "ready"]
    /\ UNCHANGED requests
    /\ ManagerUnchanged

\* uinput.rs:119-140: any process may connect to the uinput socket. Such a peer
\* writes what it likes and waits for no response.
PeerWrite(u, frame) ==
    /\ client[u] = "ready"
    /\ requests' = [requests EXCEPT ![u] = Append(@, frame)]
    /\ UNCHANGED <<client, resp_read>>
    /\ ManagerUnchanged

\* The application closes the uinput descriptor.
ShimClose(u) ==
    /\ client[u] = "ready"
    /\ client' = [client EXCEPT ![u] = "closed"]
    /\ UNCHANGED <<requests, resp_read>>
    /\ ManagerUnchanged

\* ------------------------------------------------------------------ Next
Next ==
    \/ \E s \in ControlSessions :
           next_device_id < MaxDevices /\ CreateDevice_Alloc(s, TRUE)
    \/ \E s \in ControlSessions \cup LifeUinput, outcome \in CreateOutcomes : Construct(s, outcome)
    \/ \E s \in ControlSessions : CreateDevice_Insert(s)
    \/ \E s \in ControlSessions : CreateDevice_BroadcastAdd(s)
    \/ \E s \in ControlSessions \cup LifeUinput : Respond(s)
    \/ \E s \in ControlSessions, id \in 0..(MaxDevices - 1) : DestroyDevice_Remove(s, id)
    \/ \E s \in ControlSessions : DestroyDevice_BroadcastRemove(s)
    \/ \E s \in ControlSessions : DestroyDevice_Drop(s)
    \/ \E u \in LifeUinput : SetKeyBit(u, BTN_SOUTH)
    \/ \E u \in LifeUinput : DevCreate_Source(u)
    \/ \E u \in LifeUinput :
           next_device_id < MaxDevices /\ DevCreate_Alloc(u)
    \/ \E u \in LifeUinput : DevCreate_Insert(u)
    \/ \E u \in LifeUinput : DevCreate_Map(u)
    \/ \E u \in LifeUinput : DevDestroy_Remove(u)
    \/ \E u \in LifeUinput : DevDestroy_Map(u)
    \/ \E u \in LifeUinput : SessionEof(u)

\* The device lifecycle: two control sessions and one uinput session.
Spec == Init /\ [][Next]_vars

\* The hotplug plane: the control sessions and the udev monitors.
NextHotplug ==
    \/ \E s \in ControlSessions :
           next_device_id < MaxDevices /\ CreateDevice_Alloc(s, TRUE)
    \/ \E s \in ControlSessions, outcome \in CreateOutcomes : Construct(s, outcome)
    \/ \E s \in ControlSessions : CreateDevice_Insert(s)
    \/ \E s \in ControlSessions : CreateDevice_BroadcastAdd(s)
    \/ \E s \in ControlSessions : Respond(s)
    \/ \E s \in ControlSessions, id \in 0..(MaxDevices - 1) : DestroyDevice_Remove(s, id)
    \/ \E s \in ControlSessions : DestroyDevice_BroadcastRemove(s)
    \/ \E s \in ControlSessions : DestroyDevice_Drop(s)
    \/ \E m \in Monitors : MonitorConnect(m)
    \/ \E m \in Monitors : UdevAccept(m)

HotplugSpec == Init /\ [][NextHotplug]_vars

\* ------------------------------------------------------ fan-out planes
\* The state after one CreateDevice was answered: device 0 is live, with a
\* joystick node when its config declares controls.
InitOneDevice(padConfigs) ==
    \E js \in padConfigs :
        /\ next_device_id = 1
        /\ devices = MapInsert(EmptyMap, 0, [id |-> 0, js |-> js])
        /\ fs = CreateFiles({}, 0, js, "ok")
        /\ listeners = CreateListeners({}, 0, js, "ok")
        /\ mirror_map = [i \in {} |-> None]
        /\ pc = [s \in AllSessions |-> "idle"]
        /\ device_id = [s \in AllSessions |-> None]
        /\ config = [s \in AllSessions |-> FALSE]
        /\ held = [s \in AllSessions |-> NoDevice]
        /\ result = [s \in AllSessions |-> NoResult]
        /\ state_keys = [u \in UinputSessions |-> {}]
        /\ state_abs = [u \in UinputSessions |-> {}]
        /\ InitWire
        /\ created_device_id = [u \in UinputSessions |-> None]
        /\ bound_device_id = [u \in UinputSessions |-> None]
        /\ source_device_id = [u \in UinputSessions |-> None]
        /\ mon_st = [m \in Monitors |-> "off"]
        /\ mon_queue = [m \in Monitors |-> <<>>]
        /\ mon_pos = [m \in Monitors |-> 0]
        /\ mon_out = [m \in Monitors |-> <<>>]
        /\ add_subs = [s \in AllSessions |-> {}]

\* The batch each control session sends in the fan-out plane.
FanBatch(s) ==
    IF s = "c1" THEN <<ButtonEvent("A", TRUE)>>
    ELSE <<AxisEvent("LeftStickX", 50000), SyncEvent>>

\* Every consumer has connected to device 0, was sent the handshake, was pushed
\* to its client list and has read the handshake.
InitRegistered ==
    /\ clients = [d \in DeviceIds |-> IF d = 0 THEN <<"k1", "k2">> ELSE <<>>]
    /\ joystick_clients = [d \in DeviceIds |-> IF d = 0 THEN <<"j1">> ELSE <<>>]
    /\ clients_lock = [d \in DeviceIds |-> "none"]
    /\ joystick_lock = [d \in DeviceIds |-> "none"]
    /\ conn_st = [k \in Conns |-> "done"]
    /\ conn_dev = [k \in Conns |-> 0]
    /\ mode = [k \in Conns |-> "reading"]
    /\ wire = [k \in Conns |-> <<HandshakeLen(0), HandshakeJson(0)>>]
    /\ unread = [k \in Conns |-> 0]
    /\ InitSend
    /\ InitFeedback

\* Device 0 is live with a joystick node; nobody has connected.
InitRelayPlane == InitOneDevice({TRUE}) /\ InitFan

RelayMonitors == {"m1"}
\* Construction of a mirror succeeds or fails at its first bind.
RelayOutcomes == {"ok", "fail_bind"}

NextRelay ==
    \/ \E id \in DeviceIds : DestroyDevice_Remove("c1", id)
    \/ DestroyDevice_BroadcastRemove("c1")
    \/ DestroyDevice_Drop("c1")
    \/ ListDevices("c1")
    \/ \E s \in {"c1"} \cup UinputSessions : Respond(s)
    \/ \E u \in UinputSessions : DevCreate_Source(u)
    \/ \E u \in UinputSessions :
           next_device_id < MaxRelayDevices /\ DevCreate_Alloc(u)
    \/ \E u \in UinputSessions, outcome \in RelayOutcomes : Construct(u, outcome)
    \/ \E u \in UinputSessions : DevCreate_Insert(u)
    \/ \E u \in UinputSessions : DevCreate_Map(u)
    \/ \E u \in UinputSessions : DevDestroy_Remove(u)
    \/ \E u \in UinputSessions : DevDestroy_Map(u)
    \/ \E u \in UinputSessions : SessionEof(u)
    \/ \E m \in RelayMonitors : MonitorConnect(m)
    \/ \E m \in RelayMonitors : UdevAccept(m)

\* The relay plane: two uinput sessions create and destroy mirror devices of
\* device 0 while a control session destroys and lists and a monitor subscribes.
RelaySpec == InitRelayPlane /\ [][NextRelay]_vars

\* Device 0 has a joystick node and its three consumers are registered.
InitFanPlane == InitOneDevice({TRUE}) /\ InitRegistered

\* Device 0 is live, with or without a joystick node; nobody has connected.
InitAcceptPlane == InitOneDevice(BOOLEAN) /\ InitFan

NextFan ==
    \/ \E s \in ControlSessions, id \in DeviceIds :
           sends < MaxSends /\ SendInput_Lookup(s, id, FanBatch(s))
    \/ \E s \in ControlSessions : Evdev_Lock(s)
    \/ \E s \in ControlSessions : Evdev_Write(s)
    \/ \E s \in ControlSessions : Evdev_Finish(s)
    \/ \E s \in ControlSessions : Joystick_Lock(s)
    \/ \E s \in ControlSessions : Joystick_Write(s)
    \/ \E s \in ControlSessions : Joystick_Finish(s)
    \/ \E s \in ControlSessions : SendInput_Mirror(s)
    \/ \E s \in ControlSessions : Respond(s)
    \/ \E k \in Conns : ConsumerRead(k)
    \/ \E k \in Conns : ConsumerStall(k)
    \/ \E k \in Conns : ConsumerClose(k)

\* The fan-out plane: two control sessions send to device 0 while its three
\* registered consumers read, stall and close.
FanSpec == InitFanPlane /\ [][NextFan]_vars

\* The fan-out plane under a fair scheduler: a handler that can take a step
\* takes one, and a consumer that is reading does read.
FairFanSpec ==
    /\ FanSpec
    /\ \A s \in ControlSessions :
           /\ WF_vars(Evdev_Lock(s)) /\ WF_vars(Evdev_Write(s))
           /\ WF_vars(Evdev_Finish(s)) /\ WF_vars(Joystick_Lock(s))
           /\ WF_vars(Joystick_Write(s)) /\ WF_vars(Joystick_Finish(s))
           /\ WF_vars(SendInput_Mirror(s))
    /\ \A k \in Conns : WF_vars(ConsumerRead(k))

NextAccept ==
    \/ \E id \in DeviceIds :
           sends < MaxAcceptSends /\ SendInput_Lookup("c1", id, FanBatch("c1"))
    \/ Evdev_Lock("c1")
    \/ Evdev_Write("c1")
    \/ Evdev_Finish("c1")
    \/ Joystick_Lock("c1")
    \/ Joystick_Write("c1")
    \/ Joystick_Finish("c1")
    \/ SendInput_Mirror("c1")
    \/ Respond("c1")
    \/ \E k \in Conns, d \in DeviceIds : ConsumerConnect(k, d)
    \/ \E k \in Conns : AcceptClient(k)
    \/ \E k \in Conns, serialized \in BOOLEAN : HandshakeStep(k, serialized)
    \/ \E k \in Conns : ConsumerRead(k)
    \/ \E k \in Conns : ConsumerClose(k)

\* The accept plane: consumers connect to device 0 and close while the accept
\* loops hand out handshakes and one control session sends.
AcceptSpec == InitAcceptPlane /\ [][NextAccept]_vars

\* The events a batch of the encoding plane is made of.
EncodeEvents ==
    {ButtonEvent("A", TRUE), AxisEvent("LeftStickX", 50000),
     RawEvent(EV_REL, 0, 1), SyncEvent}

RECURSIVE SeqsUpTo(_, _)
SeqsUpTo(S, n) ==
    IF n = 0 THEN {<<>>}
    ELSE LET shorter == SeqsUpTo(S, n - 1)
         IN shorter \cup {Append(q, x) : q \in shorter, x \in S}

EncodeBatches == SeqsUpTo(EncodeEvents, MaxBatchLen)

NextEncode ==
    \/ \E events \in EncodeBatches :
           sends < MaxEncodeSends /\ SendInput_Lookup("c1", 0, events)
    \/ Evdev_Lock("c1")
    \/ Evdev_Write("c1")
    \/ Evdev_Finish("c1")
    \/ Joystick_Lock("c1")
    \/ Joystick_Write("c1")
    \/ Joystick_Finish("c1")
    \/ SendInput_Mirror("c1")
    \/ Respond("c1")
    \/ \E k \in Conns : ConsumerRead(k)

\* The encoding plane: one control session sends every batch to device 0,
\* whose registered consumers keep reading.
EncodeSpec == InitFanPlane /\ [][NextEncode]_vars



\* ================================================================ claims
\* No handler is between reading a request and writing its response.
Quiescent == \A s \in AllSessions : pc[s] \in {"idle", "closed"}

FilesOfKind(kind) == {p[2] : p \in {q \in fs : q[1] = kind}}

\* C1: after any sequence of CreateDevice and DestroyDevice commands the socket
\* files under devices/ are exactly those of the live devices: devices/event{N}
\* exists if and only if device N is in the registry, and no js or feedback
\* socket exists for an id that is not in the registry.
C1_SocketFilesMatchRegistry ==
    Quiescent =>
        /\ FilesOfKind("event") = DOMAIN devices
        /\ FilesOfKind("js") \subseteq DOMAIN devices
        /\ FilesOfKind("feedback") \subseteq DOMAIN devices

\* The sessions that hold an id for a device they are constructing or have
\* constructed and not yet handed to the registry.
Creating == {s \in AllSessions : pc[s] \in {"create", "insert"}}

\* C2: under every interleaving of CreateDevice and DevCreate no two live devices
\* share an id: an id handed out for a new device is held by no device in the
\* registry, by no device object a handler still owns, and by no other creation
\* in progress.
C2_UniqueDeviceIds ==
    /\ \A i \in DOMAIN devices : devices[i].id = i
    /\ \A s \in Creating :
          /\ device_id[s] \notin DOMAIN devices
          /\ \A t \in AllSessions \ {s} :
                /\ t \in Creating => device_id[t] # device_id[s]
                /\ held[t] # NoDevice => held[t].id # device_id[s]

\* C2's case: a device created by a control session and a mirror device created
\* by the uinput session are live together.
C2_Witness ==
    /\ Cardinality(DOMAIN devices) >= 2
    /\ \E u \in UinputSessions : created_device_id[u] \in DOMAIN devices

SynReportRecord == LinuxInputEvent(EV_SYN, SYN_REPORT, 0)
Last(seq) == seq[Len(seq)]
IsSuffix(a, w) ==
    Len(a) <= Len(w) /\ SubSeq(w, Len(w) - Len(a) + 1, Len(w)) = a

IsSynReport(e) ==
    \/ e.kind = "Sync"
    \/ e.kind = "Raw" /\ e.event_type = EV_SYN /\ e.code = SYN_REPORT

Translated(events) == [i \in 1..Len(events) |-> to_linux_input_event(events[i])]

EvdevLoopDone(s) == pc[s] = "ev_write" /\ idx[s] > Len(clients[target[s].id])
JoystickLoopDone(s) ==
    pc[s] = "js_write" /\ idx[s] > Len(joystick_clients[target[s].id])

Kept(list, s) == SelectSeq(list, LAMBDA k : k \notin failed[s])

\* C4: when the removal step of a fan-out runs, exactly the clients whose write
\* failed leave the list, the others keep their relative order and hold the
\* whole buffer at the end of their stream, the registry is unchanged, and the
\* request is answered InputSent.
C4_OnlyFailedConsumerRemoved ==
    [][\A s \in ControlSessions :
           /\ (EvdevLoopDone(s) /\ pc'[s] # "ev_write") =>
                  /\ clients'[target[s].id] = Kept(clients[target[s].id], s)
                  /\ \A i \in 1..Len(clients'[target[s].id]) :
                         IsSuffix(data[s], wire[clients'[target[s].id][i]])
                  /\ devices' = devices
           /\ (JoystickLoopDone(s) /\ pc'[s] # "js_write") =>
                  /\ joystick_clients'[target[s].id] =
                         Kept(joystick_clients[target[s].id], s)
                  /\ \A i \in 1..Len(joystick_clients'[target[s].id]) :
                         IsSuffix(data[s], wire[joystick_clients'[target[s].id][i]])
                  /\ devices' = devices
           /\ (pc[s] \in {"mirror", "mirrored"} /\ pc'[s] = "respond") =>
                  /\ result'[s].type = "InputSent"
                  /\ device_id[s] \in DOMAIN devices']_vars

\* An event client's write failed, another event client took the whole buffer,
\* and the removal step is next.
C4_Witness ==
    \E s \in ControlSessions :
        /\ EvdevLoopDone(s)
        /\ failed[s] # {}
        /\ data[s] # <<>>
        /\ \E i \in 1..Len(clients[target[s].id]) :
               clients[target[s].id][i] \notin failed[s]

\* C5: a consumer that never reads cannot slow the device: every SendInput that
\* a session has started is eventually answered.
C5_SendInputAnswered ==
    \A s \in ControlSessions : (pc[s] = "ev_send") ~> (pc[s] = "respond")

\* The loop of session s has passed connection k and its write succeeded.
Received(s, k) ==
    /\ pc[s] = "ev_write"
    /\ k \notin failed[s]
    /\ \E i \in 1..Len(clients[target[s].id]) :
           clients[target[s].id][i] = k /\ i < idx[s]

\* C6: a consumer that is in the event client list when a batch is sent, and
\* keeps reading, receives the whole buffer of the batch.
C6_RegisteredConsumerReceivesBatch ==
    \A s \in ControlSessions, k \in EventConns :
        (pc[s] = "ev_write" /\ data[s] # <<>> /\ mode[k] = "reading"
             /\ \E i \in 1..Len(clients[target[s].id]) : clients[target[s].id][i] = k)
          ~> (Received(s, k) \/ mode[k] # "reading")


\* What a consumer was sent after its handshake.
Post(k) == SubSeq(wire[k], 3, Len(wire[k]))

\* The buffers the SendInput calls of the fan-out plane write.
CallBuffers == {EvdevData(FanBatch(s)) : s \in ControlSessions}

RECURSIVE IsCallSequence(_)
\* w is a concatenation of whole call buffers.
IsCallSequence(w) ==
    \/ w = <<>>
    \/ \E b \in CallBuffers :
           /\ Len(b) <= Len(w)
           /\ SubSeq(w, 1, Len(b)) = b
           /\ IsCallSequence(SubSeq(w, Len(b) + 1, Len(w)))

InEventClients(k) == \E i \in 1..Len(clients[0]) : clients[0][i] = k

\* C7: whenever no fan-out call is inside its loop over the event clients, any
\* two consumers in the client list of the device have been sent the same
\* stream: whole call buffers, in the same order of calls on both.
C7_SameStreamOnEveryConsumer ==
    (\A s \in ControlSessions : pc[s] # "ev_write") =>
        \A a \in EventConns, b \in EventConns :
            (InEventClients(a) /\ InEventClients(b)) =>
                Post(a) = Post(b) /\ IsCallSequence(Post(a))

\* Two sessions are both between request and response, both have sent to the
\* two event consumers, and both consumers are still in the list.
C7_Witness ==
    /\ \A s \in ControlSessions : pc[s] \in {"js_send", "js_write", "mirror"}
    /\ InEventClients("k1") /\ InEventClients("k2")
    /\ Len(Post("k1")) =
           Len(EvdevData(FanBatch("c1"))) + Len(EvdevData(FanBatch("c2")))

Registered(k) ==
    \E d \in DeviceIds : \E i \in 1..Len(ListOf(k, d)) : ListOf(k, d)[i] = k

\* C8: on every event and joystick connection the first unit written is the
\* handshake length and the second the handshake JSON; a connection in a client
\* list has been sent both; a connection whose handshake failed is in no list.
C8_HandshakeBeforeFanOut ==
    \A k \in Conns :
        /\ Len(wire[k]) >= 1 => wire[k][1] = HandshakeLen(conn_dev[k])
        /\ Len(wire[k]) >= 2 => wire[k][2] = HandshakeJson(conn_dev[k])
        /\ Registered(k) => Len(wire[k]) >= 2
        /\ conn_st[k] = "dropped" => ~Registered(k)

\* One connection was sent a fan-out buffer after its handshake, a joystick
\* connection is in its list, and another connection's handshake failed.
C8_Witness ==
    /\ \E k \in EventConns : Registered(k) /\ Len(wire[k]) > 2
    /\ \E j \in JsConns : Registered(j)
    /\ \E o \in Conns : conn_st[o] = "dropped" /\ Len(wire[o]) = 1


\* A control session is about to write DeviceCreated for `id`.
AboutToAnswerCreated(s) == pc[s] = "respond" /\ result[s].type = "DeviceCreated"

\* C9 as stated: when a CreateDevice response naming eventN is sent, the add
\* record for eventN has been enqueued to every subscriber connected at that
\* instant (read in the claim's favour: every subscriber the broadcaster has
\* accepted by then).
C9_AddEnqueuedToConnected ==
    \A s \in ControlSessions :
        AboutToAnswerCreated(s) =>
            \A m \in Monitors :
                mon_st[m] = "subscribed" =>
                    Record("add", result[s].device_id) \in Range(Enqueued(m))

\* C9 amended: when a CreateDevice response naming eventN is sent, the add record
\* for eventN has been enqueued to every subscriber that was subscribed to the
\* channel at the instant the add was broadcast.
C9_AddEnqueuedToSubscribedAtBroadcast ==
    \A s \in ControlSessions :
        AboutToAnswerCreated(s) =>
            \A m \in add_subs[s] :
                Record("add", result[s].device_id) \in Range(Enqueued(m))

\* C9's case: a response is about to be written, one monitor was subscribed when
\* the add was broadcast and another one subscribed only afterwards.
C9_Witness ==
    \E s \in ControlSessions :
        /\ AboutToAnswerCreated(s)
        /\ add_subs[s] # {}
        /\ \E m \in Monitors \ add_subs[s] : mon_st[m] = "subscribed"

\* C10: a subscriber holds the Add record of a device only once the device's
\* event socket is listening and its sysfs subtree exists, and holds the Remove
\* record only once the device's socket files and sysfs subtree are gone (ids are
\* never handed out twice, so "enqueued after" is "whenever enqueued").
C10_AddRemoveOrdering ==
    \A m \in Monitors :
        \A rec \in Range(Enqueued(m)) :
            /\ (rec[1] = "add" /\ rec[2] \in DOMAIN devices) =>
                  /\ <<"event", rec[2]>> \in fs
                  /\ <<"event", rec[2]>> \in listeners
                  /\ <<"sysfs", rec[2]>> \in fs
            /\ rec[1] = "remove" =>
                  \A k \in FileKinds : <<k, rec[2]>> \notin fs

\* ------------------------------------------------------------ claims C11-C20
\* The ids a step takes out of the registry.
Destroyed == DOMAIN devices \ DOMAIN devices'

\* C11: every destruction of a device, whether by DestroyDevice, by a uinput
\* DevDestroy or by the close of a uinput transport, broadcasts a udev remove
\* record for it: the step that takes the device out of the registry leaves its
\* handler about to broadcast the remove record of that device.
C11_DestructionBroadcastsRemove ==
    [][\A id \in Destroyed :
          \E s \in AllSessions : pc'[s] = "udev_remove" /\ device_id'[s] = id]_vars

\* The hang-up plane: session c1 creates and destroys devices and hangs up, while
\* session c2 only lists, so every registered device was created by c1.
NextHangup ==
    \/ \E js \in BOOLEAN : next_device_id < MaxDevices /\ CreateDevice_Alloc("c1", js)
    \/ \E outcome \in CreateOutcomes : Construct("c1", outcome)
    \/ CreateDevice_Insert("c1")
    \/ CreateDevice_BroadcastAdd("c1")
    \/ \E id \in 0..(MaxDevices - 1) : DestroyDevice_Remove("c1", id)
    \/ DestroyDevice_BroadcastRemove("c1")
    \/ DestroyDevice_Drop("c1")
    \/ ControlEof("c1")
    \/ ListDevices("c2")
    \/ \E s \in ControlSessions : Respond(s)

\* Every handler that can take a step of a command in progress takes it.
HangupSpec ==
    /\ Init
    /\ [][NextHangup]_vars
    /\ WF_vars(CreateDevice_Insert("c1")) /\ WF_vars(CreateDevice_BroadcastAdd("c1"))
    /\ WF_vars(DestroyDevice_BroadcastRemove("c1")) /\ WF_vars(DestroyDevice_Drop("c1"))
    /\ \A s \in ControlSessions : WF_vars(Respond(s))

\* C12: when a control session ends, every device it created and did not destroy
\* is destroyed and ListDevices no longer returns it: once c1 has hung up, the
\* registry ListDevices answers from comes to hold none of its devices.
C12_HangupDestroysCreated == (pc["c1"] = "closed") ~> (DOMAIN devices = {})

\* The step is a ListDevices of session s: its answer is result'[s].list.
Lists(s) == pc[s] = "idle" /\ result'[s].type = "DeviceList"

\* C13: once a uinput session that issued DevCreate has issued DevDestroy or has
\* closed, a following ListDevices returns no mirror id DevCreate allocated to
\* it. In the relay plane device 0 is the only device no DevCreate allocated, so
\* a ListDevices that follows the close of every uinput session returns no id
\* but 0.
C13_NoMirrorListedAfterSessionEnd ==
    [][(Lists("c1") /\ \A u \in UinputSessions : pc[u] = "closed")
          => result'["c1"].list \subseteq {0}]_vars

\* C14: when a uinput session's transport closes after a successful DevCreate,
\* no entry of the mirror map has the session's mirror device as its value
\* afterwards, exactly as after DevDestroy.
C14_EofClearsMirrorMap ==
    \A u \in UinputSessions :
        (pc[u] = "closed" /\ created_device_id[u] # None) =>
            \A src \in DOMAIN mirror_map : mirror_map[src] # created_device_id[u]

\* Session u moves from one position of its DevCreate to the next.
Moves(u, from, to) == pc[u] = from /\ pc'[u] = to

\* C15: DevCreate in a uinput session, with at least one device live, takes the
\* smallest live id as source, allocates for the mirror an id no device and no
\* other handler has, adds the mirror to the registry under that id, and sets the
\* mirror map entry of the source to the mirror, whatever entry an earlier
\* session left there, leaving the other entries alone.
C15_DevCreateMirrorsSmallestLive ==
    [][\A u \in UinputSessions :
          /\ (pc[u] = "idle" /\ DOMAIN devices # {} /\ pc'[u] \notin {"idle", "closed", "dd_map"}) =>
                /\ pc'[u] = "dc_alloc"
                /\ source_device_id'[u] \in DOMAIN devices
                /\ \A id \in DOMAIN devices : source_device_id'[u] <= id
          /\ Moves(u, "dc_alloc", "create") =>
                /\ device_id'[u] \notin DOMAIN devices
                /\ \A s \in AllSessions \ {u} : device_id[s] # device_id'[u]
                /\ \A src \in DOMAIN mirror_map : mirror_map[src] # device_id'[u]
          /\ Moves(u, "insert", "dc_map") =>
                /\ DOMAIN devices' = DOMAIN devices \cup {device_id[u]}
                /\ devices'[device_id[u]].id = device_id[u]
          /\ Moves(u, "dc_map", "respond") =>
                /\ DOMAIN mirror_map' = DOMAIN mirror_map \cup {source_device_id[u]}
                /\ mirror_map'[source_device_id[u]] = device_id[u]
                /\ \A src \in DOMAIN mirror_map \ {source_device_id[u]} :
                       mirror_map'[src] = mirror_map[src]
                /\ result'[u] = Result("Ok", device_id[u])]_vars

\* C15's case: a DevCreate is about to be answered Ok, and the entry it set for
\* its source replaced the one a closed session had left there.
C15_Witness ==
    \E u, v \in UinputSessions :
        /\ pc[v] = "closed" /\ created_device_id[v] # None
        /\ source_device_id[v] = source_device_id[u]
        /\ pc[u] = "respond" /\ result[u] = Result("Ok", device_id[u])
        /\ mirror_map[source_device_id[u]] = device_id[u]
        /\ device_id[u] # created_device_id[v]

\* The mirror plane. Session u1 has enabled BTN_SOUTH and issued DevCreate:
\* device 1 mirrors device 0. Consumer k1 reads the event node of device 0, k2
\* the event node of the mirror and j1 the mirror's joystick node.
InitMirrored ==
    /\ next_device_id = 2
    /\ devices = MapInsert(MapInsert(EmptyMap, 0, [id |-> 0, js |-> TRUE]),
                           1, [id |-> 1, js |-> TRUE])
    /\ fs = CreateFiles(CreateFiles({}, 0, TRUE, "ok"), 1, TRUE, "ok")
    /\ listeners = CreateListeners(CreateListeners({}, 0, TRUE, "ok"), 1, TRUE, "ok")
    /\ mirror_map = MapInsert([i \in {} |-> None], 0, 1)
    /\ pc = [s \in AllSessions |-> "idle"]
    /\ device_id = [s \in AllSessions |-> None]
    /\ config = [s \in AllSessions |-> FALSE]
    /\ held = [s \in AllSessions |-> NoDevice]
    /\ result = [s \in AllSessions |-> NoResult]
    /\ state_keys = [u \in UinputSessions |-> IF u = "u1" THEN {BTN_SOUTH} ELSE {}]
    /\ state_abs = [u \in UinputSessions |-> {}]
    /\ created_device_id = [u \in UinputSessions |-> IF u = "u1" THEN 1 ELSE None]
    /\ bound_device_id = [u \in UinputSessions |-> IF u = "u1" THEN 1 ELSE None]
    /\ source_device_id = [u \in UinputSessions |-> IF u = "u1" THEN 0 ELSE None]
    /\ mon_st = [m \in Monitors |-> "off"]
    /\ mon_queue = [m \in Monitors |-> <<>>]
    /\ mon_pos = [m \in Monitors |-> 0]
    /\ mon_out = [m \in Monitors |-> <<>>]
    /\ add_subs = [s \in AllSessions |-> {}]
    /\ clients = [d \in DeviceIds |->
                     IF d = 0 THEN <<"k1">> ELSE IF d = 1 THEN <<"k2">> ELSE <<>>]
    /\ joystick_clients = [d \in DeviceIds |-> IF d = 1 THEN <<"j1">> ELSE <<>>]
    /\ clients_lock = [d \in DeviceIds |-> "none"]
    /\ joystick_lock = [d \in DeviceIds |-> "none"]
    /\ conn_st = [k \in Conns |-> "done"]
    /\ conn_dev = [k \in Conns |-> IF k = "k1" THEN 0 ELSE 1]
    /\ mode = [k \in Conns |-> "reading"]
    /\ wire = [k \in Conns |-> IF k = "k1"
                               THEN <<HandshakeLen(0), HandshakeJson(0)>>
                               ELSE <<HandshakeLen(1), HandshakeJson(1)>>]
    /\ unread = [k \in Conns |-> 0]
    /\ InitSend
    /\ InitFeedback

InitMirrorPlane == InitMirrored /\ InitWire

\* The batches sent in the mirror plane: none, one event, two events.
MirrorBatches == {<<>>, FanBatch("c1"), FanBatch("c2")}

NextMirror ==
    \/ \E id \in DeviceIds, events \in MirrorBatches :
           sends < MaxSends /\ SendInput_Lookup("c1", id, events)
    \/ Evdev_Lock("c1")
    \/ Evdev_Write("c1")
    \/ Evdev_Finish("c1")
    \/ Joystick_Lock("c1")
    \/ Joystick_Write("c1")
    \/ Joystick_Finish("c1")
    \/ SendInput_Mirror("c1")
    \/ SendInput_Mirrored("c1")
    \/ \E s \in {"c1", "u1"} : Respond(s)
    \/ DevDestroy_Remove("u1")
    \/ DevDestroy_Map("u1")
    \/ SessionEof("u1")
    \/ \E k \in Conns : ConsumerRead(k)
    \/ \E k \in Conns : ConsumerClose(k)

\* One control session sends to the source, to the mirror and to an id nobody
\* has, while the uinput session destroys its mirror or closes.
MirrorSpec == InitMirrorPlane /\ [][NextMirror]_vars

\* The event consumers a step writes to.
Written == {k \in Conns : wire'[k] # wire[k]}

\* C16: a SendInput of a non-empty batch to a device whose mirror map entry
\* names a registered device is answered only after the same batch was also
\* sent to the mirror: every event consumer then in the mirror's client list
\* holds the batch's buffer at the end of its stream. A SendInput writes to the
\* consumers of the device it names, and to those of another device only after
\* its mirror lookup found an entry for the named device, which names that other.
C16_BatchAlsoSentToMirror ==
    [][LET s == "c1" IN
       /\ Moves(s, "mirror", "respond") =>
             ~ /\ batch[s] # <<>>
               /\ device_id[s] \in DOMAIN mirror_map
               /\ mirror_map[device_id[s]] \in DOMAIN devices
       /\ Moves(s, "mirror", "ev_send") =>
             /\ device_id[s] \in DOMAIN mirror_map
             /\ target'[s].id = mirror_map[device_id[s]]
             /\ batch'[s] = batch[s]
       /\ Moves(s, "mirrored", "respond") =>
             /\ target[s].id # device_id[s]
             /\ batch[s] # <<>>
             /\ \A i \in 1..Len(clients[target[s].id]) :
                    IsSuffix(EvdevData(batch[s]), wire[clients[target[s].id][i]])
       /\ \A k \in Written :
             /\ pc[s] \in {"ev_write", "js_write"}
             /\ conn_dev[k] = target[s].id
       /\ (pc[s] # "idle" /\ target'[s] \notin {target[s], NoDevice}) =>
             Moves(s, "mirror", "ev_send")
       /\ (pc[s] = "idle" /\ target'[s] # NoDevice) => target'[s].id = device_id'[s]]_vars

\* C16's case: the batch sent to device 0 has reached the mirror's consumer and
\* the answer is next.
C16_Witness ==
    /\ pc["c1"] = "mirrored"
    /\ device_id["c1"] = 0 /\ target["c1"].id = 1
    /\ batch["c1"] # <<>>
    /\ clients[1] = <<"k2">>
    /\ IsSuffix(EvdevData(batch["c1"]), wire["k2"])
    /\ IsSuffix(EvdevData(batch["c1"]), wire["k1"])

\* The wire plane: the mirror plane with the shim of session u1 at the far end of
\* its connection. Its SetKeyBit and DevCreate, requests 1 and 2, were answered
\* and the answers read.
InitWirePlane ==
    /\ InitMirrored
    /\ requests = [u \in AllSessions |->
                      IF u = "u1"
                      THEN <<Request("SetKeyBit", <<>>), Request("DevCreate", <<>>)>>
                      ELSE <<>>]
    /\ req_read = [u \in AllSessions |-> IF u = "u1" THEN 2 ELSE 0]
    /\ responses = [u \in AllSessions |-> IF u = "u1" THEN <<1, 2>> ELSE <<>>]
    /\ resp_read = [u \in AllSessions |-> IF u = "u1" THEN 2 ELSE 0]
    /\ client = [u \in AllSessions |-> IF u = "u1" THEN "ready" ELSE "none"]

\* The requests the shim writes on one connection.
MaxRequests == 5

\* What the application writes to the uinput descriptor: a key press, which is
\* forwarded, and a relative motion, which is not.
WireBatches == {<<LinuxInputEvent(EV_KEY, BTN_SOUTH, 1)>>, <<LinuxInputEvent(EV_REL, 0, 1)>>}

NextWire ==
    \/ \E kind \in AnsweredKinds :
           Len(requests["u1"]) < MaxRequests /\ ShimRequest("u1", kind)
    \/ \E events \in WireBatches :
           Len(requests["u1"]) < MaxRequests /\ ShimWriteEvents("u1", events)
    \/ ShimRead("u1")
    \/ ShimClose("u1")
    \/ \E kind \in SetupKinds : Setup("u1", kind)
    \/ WriteEvents_Lookup("u1")
    \/ Evdev_Lock("u1")
    \/ Evdev_Write("u1")
    \/ Evdev_Finish("u1")
    \/ Joystick_Lock("u1")
    \/ Joystick_Write("u1")
    \/ Joystick_Finish("u1")
    \/ WriteEvents_Done("u1")
    \/ DevCreate_Source("u1")
    \/ next_device_id < MaxRelayDevices /\ DevCreate_Alloc("u1")
    \/ \E outcome \in RelayOutcomes : Construct("u1", outcome)
    \/ DevCreate_Insert("u1")
    \/ DevCreate_Map("u1")
    \/ DevDestroy_Remove("u1")
    \/ DevDestroy_Map("u1")
    \/ Respond("u1")
    \/ SessionEof("u1")
    \/ \E k \in {"k2", "j1"} : ConsumerRead(k)
    \/ \E k \in {"k2", "j1"} : ConsumerClose(k)

WireSpec == InitWirePlane /\ [][NextWire]_vars

\* The requests of session u that handle_client has finished with.
Handled(u) == IF pc[u] \in {"idle", "closed"} THEN req_read[u] ELSE req_read[u] - 1

\* The requests among the first n of session u that are not WriteEvents.
Answerable(u, n) ==
    SelectSeq([i \in 1..n |-> i], LAMBDA i : requests[u][i].kind # "WriteEvents")

\* C17: in a uinput session WriteEvents never produces a response and every
\* other request exactly one, written before the next request is read: whenever
\* the session is about to read a request the responses written are those of the
\* earlier requests other than WriteEvents, one each and in their order. The
\* response a waiting client reads next is therefore the one to its own request.
C17_OneResponsePerSetupRequest ==
    \A u \in UinputSessions :
        Wired(u) =>
            /\ responses[u] = Answerable(u, Handled(u))
            /\ (client[u] = "awaiting" /\ resp_read[u] < Len(responses[u])) =>
                   responses[u][resp_read[u] + 1] = Len(requests[u])

\* C17's case: the client wrote events and then a request; the events were
\* forwarded to the mirror's consumer unanswered, the request's response is
\* written and the client is about to read it.
C17_Witness ==
    /\ client["u1"] = "awaiting"
    /\ resp_read["u1"] < Len(responses["u1"])
    /\ \E i \in 1..(Len(requests["u1"]) - 1) :
           /\ requests["u1"][i].kind = "WriteEvents"
           /\ InputEventsOf(requests["u1"][i].events) # <<>>
    /\ Len(wire["k2"]) > 2

\* C18: if constructing a device fails at any step, the request is answered with
\* an Error and nothing of the attempt persists: when the Error is about to be
\* written no socket file, no sysfs subtree, no udev data file and no registry
\* entry of the id allocated for the attempt exists.
C18_FailedConstructionLeavesNothing ==
    \A s \in AllSessions :
        (pc[s] = "respond" /\ result[s].type = "Error" /\ device_id[s] # None) =>
            /\ \A k \in FileKinds : <<k, device_id[s]>> \notin fs
            /\ device_id[s] \notin DOMAIN devices

\* The race plane: session c1 sends input to device 0 and its registered
\* consumers read or stall, while session c2 destroys the device.
NextRace ==
    \/ \E id \in DeviceIds :
           sends < MaxSends /\ SendInput_Lookup("c1", id, FanBatch("c1"))
    \/ Evdev_Lock("c1")
    \/ Evdev_Write("c1")
    \/ Evdev_Finish("c1")
    \/ Joystick_Lock("c1")
    \/ Joystick_Write("c1")
    \/ Joystick_Finish("c1")
    \/ SendInput_Mirror("c1")
    \/ \E id \in DeviceIds : DestroyDevice_Remove("c2", id)
    \/ DestroyDevice_BroadcastRemove("c2")
    \/ DestroyDevice_Drop("c2")
    \/ \E s \in ControlSessions : Respond(s)
    \/ \E k \in Conns : ConsumerRead(k)
    \/ \E k \in Conns : ConsumerStall(k)

RaceSpec == InitFanPlane /\ [][NextRace]_vars

\* The files the claim names.
NodeKinds == {"event", "sysfs", "udev_data"}

\* C19: every registered device has its event socket file, its sysfs subtree
\* and its udev data file, and when DestroyDevice is about to be answered
\* DeviceDestroyed none of the three exists for the destroyed id, whatever
\* SendInput requests other sessions have in progress for the device.
C19_FilesExistExactlyWhileLive ==
    /\ \A id \in DOMAIN devices : \A k \in NodeKinds : <<k, id>> \in fs
    /\ \A s \in ControlSessions :
           (pc[s] = "respond" /\ result[s].type = "DeviceDestroyed") =>
               \A k \in NodeKinds : <<k, result[s].device_id>> \notin fs

\* The ids a DestroyDevice freed and a monitor was told about.
FreedSeen ==
    {rec[2] : rec \in {r \in UNION {Range(Enqueued(m)) : m \in Monitors} :
                          r[1] = "remove"}}

\* The step takes session s from its CreateDevice request to the construction.
Allocates(s) == pc[s] = "idle" /\ pc'[s] = "create"

MaxFrames == 3

\* What the peer of the frame plane writes: an empty message, one above the
\* limit, one of exactly the limit, a body that does not parse, and requests.
PeerFrames ==
    { Frame(0, "Malformed", <<>>),
      Frame(MaxMessageLen + 1, "SetKeyBit", <<>>),
      Frame(MaxMessageLen, "SetKeyBit", <<>>),
      Frame(1, "Malformed", <<>>),
      Request("DevDestroy", <<>>),
      Request("WriteEvents", <<LinuxInputEvent(EV_KEY, BTN_SOUTH, 1)>>) }

NextFrame ==
    \/ \E frame \in PeerFrames :
           Len(requests["u1"]) < 2 + MaxFrames /\ PeerWrite("u1", frame)
    \/ ShimClose("u1")
    \/ LengthBreak("u1")
    \/ ParseError("u1")
    \/ Setup("u1", "SetKeyBit")
    \/ WriteEvents_Lookup("u1")
    \/ Evdev_Lock("u1")
    \/ Evdev_Write("u1")
    \/ Evdev_Finish("u1")
    \/ Joystick_Lock("u1")
    \/ Joystick_Write("u1")
    \/ Joystick_Finish("u1")
    \/ WriteEvents_Done("u1")
    \/ DevDestroy_Remove("u1")
    \/ DevDestroy_Map("u1")
    \/ Respond("u1")
    \/ SessionEof("u1")
    \/ \E k \in {"k2", "j1"} : ConsumerRead(k)

\* The frame plane: the wire plane with any process as the peer of session u1.
FrameSpec == InitWirePlane /\ [][NextFrame]_vars

\* The messages of session u whose length prefix is 0 or above 1,000,000, among
\* those handle_client has taken off the stream.
BadLengthRead(u) ==
    {i \in 1..req_read[u] : requests[u][i].len = 0 \/ requests[u][i].len > 1000000}

\* What handle_client and process_request of session u work on.
SessionState(u) ==
    <<devices, mirror_map, next_device_id, fs, req_read[u], responses[u],
      state_keys[u], state_abs[u], created_device_id[u], bound_device_id[u], wire>>

\* C21: a uinput message whose length prefix is 0 or greater than 1,000,000
\* terminates the session: it is the last message the session takes off the
\* stream, the session is closed, the mirror device it holds as created is not in
\* the registry, and from then on nothing the session works on changes.
C21_InvalidLengthTerminates ==
    /\ [](\A u \in UinputSessions : \A i \in BadLengthRead(u) :
              /\ req_read[u] = i
              /\ pc[u] = "closed"
              /\ created_device_id[u] # None =>
                     created_device_id[u] \notin DOMAIN devices)
    /\ [][\A u \in UinputSessions :
              BadLengthRead(u) # {} => SessionState(u)' = SessionState(u)]_vars

\* C21's case: the session read a message of invalid length while it held a
\* mirror device, and the peer has written a further message since.
C21_Witness ==
    /\ BadLengthRead("u1") # {}
    /\ created_device_id["u1"] # None
    /\ req_read["u1"] < Len(requests["u1"])
    /\ pc["u1"] = "closed"

\* The messages of session u with an accepted length whose body does not parse,
\* among those handle_client has taken off the stream.
MalformedRead(u) ==
    {i \in 1..req_read[u] : /\ requests[u][i].kind = "Malformed"
                            /\ requests[u][i].len \in 1..1000000}

\* C22: a uinput message with a valid length whose body is malformed JSON, or
\* not a known request, closes the session: it is the last message the session
\* takes off the stream and the session is closed.
C22_MalformedBodyClosesSession ==
    \A u \in UinputSessions : \A i \in MalformedRead(u) :
        req_read[u] = i /\ pc[u] = "closed"

\* Lines a peer writes on one control connection in the command plane.
MaxCommands == 3

\* The command plane: the mirrored devices 0 and 1 of the mirror plane, with the
\* peer of control session c1 at the far end of its connection.
InitCommandPlane ==
    /\ InitMirrored
    /\ requests = [s \in AllSessions |-> <<>>]
    /\ req_read = [s \in AllSessions |-> 0]
    /\ responses = [s \in AllSessions |-> <<>>]
    /\ resp_read = [s \in AllSessions |-> 0]
    /\ client = [s \in AllSessions |-> IF s = "c1" THEN "ready" ELSE "none"]

\* What the peer writes: commands on live devices and on id 2, which nobody
\* has, an empty batch, and a line that does not parse. The ids are the peer's
\* choice. A udev monitor subscribes meanwhile.
CommandLines ==
    { ControlMessage("a", "SendInput", <<0, FanBatch("c1")>>),
      ControlMessage("b", "SendInput", <<0, <<>> >>),
      ControlMessage("a", "SendInput", <<1, <<>> >>),
      ControlMessage("a", "SendInput", <<2, FanBatch("c1")>>),
      ControlMessage("b", "DestroyDevice", 2),
      ControlMessage("a", "DestroyDevice", 1),
      ControlMessage("b", "ListDevices", None),
      ControlMessage("a", "Malformed", None) }

NextCommand ==
    \/ \E line \in CommandLines :
           Len(requests["c1"]) < MaxCommands /\ PeerWrite("c1", line)
    \/ ShimClose("c1")
    \/ \E id \in DeviceIds, events \in MirrorBatches : SendInput_Lookup("c1", id, events)
    \/ Evdev_Lock("c1")
    \/ Evdev_Write("c1")
    \/ Evdev_Finish("c1")
    \/ Joystick_Lock("c1")
    \/ Joystick_Write("c1")
    \/ Joystick_Finish("c1")
    \/ SendInput_Mirror("c1")
    \/ SendInput_Mirrored("c1")
    \/ \E id \in DeviceIds : DestroyDevice_Remove("c1", id)
    \/ DestroyDevice_BroadcastRemove("c1")
    \/ DestroyDevice_Drop("c1")
    \/ ListDevices("c1")
    \/ ControlParseError("c1")
    \/ Respond("c1")
    \/ ControlEof("c1")
    \/ \E k \in Conns : ConsumerRead(k)
    \/ MonitorConnect("m1")
    \/ UdevAccept("m1")

CommandSpec == InitCommandPlane /\ [][NextCommand]_vars

\* The lines among the first n of session s that parse as a ControlMessage.
WellFormed(s, n) ==
    SelectSeq([i \in 1..n |-> i], LAMBDA i : requests[s][i].kind # "Malformed")

\* C23: every well-formed control-plane request is answered by exactly one
\* response that carries the request's id, and the responses of a session are
\* written in the order its requests were read: whenever a response has been
\* written, the responses of the session are the ids of its well-formed requests
\* handled so far, one each and in their order.
C23_ResponsesEchoIdsInOrder ==
    \A s \in ControlSessions :
        Wired(s) =>
            LET answered == WellFormed(s, Handled(s))
            IN responses[s] = [i \in 1..Len(answered) |-> requests[s][answered[i]].id]

\* C23's case: two requests with different ids were answered and a line that
\* does not parse was skipped before the second.
C23_Witness ==
    /\ Len(responses["c1"]) = 2
    /\ responses["c1"][1] # responses["c1"][2]
    /\ req_read["c1"] = 3
    /\ requests["c1"][2].kind = "Malformed"

\* Session s takes a DestroyDevice or SendInput off its connection that names a
\* device id the registry does not hold.
ReadsUnknownId(s) ==
    /\ pc[s] = "idle"
    /\ req_read'[s] = req_read[s] + 1
    /\ LET line == requests[s][req_read[s] + 1]
       IN \/ line.kind = "DestroyDevice" /\ line.arg \notin DOMAIN devices
          \/ line.kind = "SendInput" /\ line.arg[1] \notin DOMAIN devices

\* C24: DestroyDevice or SendInput that names a device id not in the registry is
\* answered with Error, leaves the registry, the id counter and the mirror map
\* unchanged, writes nothing to any consumer and broadcasts no hotplug record;
\* the answer written, the session reads its next request.
C24_UnknownIdAnsweredWithError ==
    [][\A s \in ControlSessions :
           /\ (Wired(s) /\ ReadsUnknownId(s)) =>
                  /\ pc'[s] = "respond"
                  /\ result'[s].type = "Error"
                  /\ UNCHANGED <<devices, next_device_id, mirror_map, fs, wire,
                                 unread, mon_queue>>
           /\ (pc[s] = "respond" /\ result[s].type = "Error" /\ pc'[s] # pc[s]) =>
                  /\ pc'[s] = "idle"
                  /\ Len(responses'[s]) = Len(responses[s]) + 1]_vars

\* C24's case: with a monitor subscribed, the session answered a request on id 2
\* with Error and went on to answer a later request.
C24_Witness ==
    /\ mon_st["m1"] = "subscribed"
    /\ Len(responses["c1"]) = 2
    /\ requests["c1"][1] = ControlMessage("b", "DestroyDevice", 2)
    /\ requests["c1"][2] = ControlMessage("a", "SendInput", <<0, FanBatch("c1")>>)
    /\ Len(wire["k1"]) > 2

\* The failure plane: the command plane's devices, with the peer of c1 on the
\* wire, a second control session and the uinput session that owns mirror 1.
FailureLines ==
    { ControlMessage("a", "DestroyDevice", 0),
      ControlMessage("b", "ListDevices", None),
      ControlMessage("a", "Malformed", None) }

NextFailure ==
    \/ \E line \in FailureLines :
           Len(requests["c1"]) < MaxCommands /\ PeerWrite("c1", line)
    \/ ShimClose("c1")
    \/ \E s \in ControlSessions, id \in DeviceIds : DestroyDevice_Remove(s, id)
    \/ \E s \in ControlSessions : DestroyDevice_BroadcastRemove(s)
    \/ \E s \in ControlSessions : DestroyDevice_Drop(s)
    \/ \E s \in ControlSessions : ListDevices(s)
    \/ ControlParseError("c1")
    \/ \E s \in ControlSessions \cup {"u1"} : Respond(s)
    \/ \E s \in ControlSessions : RespondFails(s)
    \/ ReadError("c1")
    \/ \E s \in ControlSessions : ControlEof(s)
    \/ DevDestroy_Remove("u1")
    \/ DevDestroy_Map("u1")
    \/ SessionEof("u1")

FailureSpec == InitCommandPlane /\ [][NextFailure]_vars

\* Control session s ends in this step.
Ends(s) == pc[s] # "closed" /\ pc'[s] = "closed"

\* C25: a failure in one control-plane session (a response that cannot be
\* written, a read error, a line that does not parse) ends at most that
\* session: in the step that ends it, and in the step that skips a malformed
\* line, no other session changes its place and the registry, the files and the
\* mirror map stay as they are.
C25_FailureEndsOnlyItsSession ==
    [][\A s \in ControlSessions :
           (Ends(s) \/ (Wired(s) /\ pc[s] = "idle" /\ req_read'[s] # req_read[s]
                           /\ requests[s][req_read'[s]].kind = "Malformed")) =>
               /\ \A other \in AllSessions \ {s} : pc'[other] = pc[other]
               /\ UNCHANGED <<devices, fs, mirror_map>>]_vars

\* C25's case: c1 ended at a response it could not write while c2 was inside a
\* request and devices were live; c2 is still where it was.
C25_Witness ==
    /\ pc["c1"] = "closed"
    /\ result["c1"].type # "none"
    /\ pc["c2"] = "udev_remove"
    /\ pc["u1"] = "idle"
    /\ DOMAIN devices # {}

NextDrain ==
    \/ \E k \in Conns : ConsumerConnect(k, 0)
    \/ \E k \in Conns : AcceptClient(k)
    \/ \E k \in Conns : HandshakeStep(k, TRUE)
    \/ \E k \in Conns : ConsumerRead(k)
    \/ \E id \in DeviceIds : DestroyDevice_Remove("c1", id)
    \/ DestroyDevice_BroadcastRemove("c1")
    \/ DestroyDevice_Drop("c1")
    \/ Respond("c1")

\* The drain plane: consumers connect to device 0 and are accepted while a
\* control session destroys it; every task of the manager is scheduled fairly.
DrainSpec ==
    /\ InitAcceptPlane
    /\ [][NextDrain]_vars
    /\ WF_vars(DestroyDevice_BroadcastRemove("c1"))
    /\ WF_vars(DestroyDevice_Drop("c1"))
    /\ WF_vars(Respond("c1"))
    /\ \A k \in Conns :
           /\ WF_vars(AcceptClient(k))
           /\ WF_vars(HandshakeStep(k, TRUE))
           /\ WF_vars(ConsumerRead(k))

\* Device d is drained: nothing accepts on its sockets and no write-half of a
\* consumer is held for it, so its consumers read end-of-stream.
Drained(d) ==
    /\ \A kind \in SocketKinds : <<kind, d>> \notin listeners
    /\ clients[d] = <<>>
    /\ joystick_clients[d] = <<>>

\* C26: when a device is destroyed its accept tasks stop and the write-halves
\* of all its connected consumers are closed: a device that has left the
\* registry is eventually drained.
C26_DestroyedDeviceDrains ==
    \A d \in DeviceIds : (d \notin DOMAIN devices) ~> Drained(d)

\* Devices created, one after the other, in the lag plane: each is announced by
\* an add record and, once destroyed, by a remove record.
MaxLagDevices == 52

\* The lag plane: monitor m1 has connected and udev.rs:117-128 has subscribed
\* it; nothing has been broadcast yet.
InitLagPlane ==
    /\ next_device_id = 0
    /\ devices = EmptyMap
    /\ mirror_map = [i \in {} |-> None]
    /\ fs = {}
    /\ listeners = {}
    /\ pc = [s \in AllSessions |-> "idle"]
    /\ device_id = [s \in AllSessions |-> None]
    /\ config = [s \in AllSessions |-> FALSE]
    /\ held = [s \in AllSessions |-> NoDevice]
    /\ result = [s \in AllSessions |-> NoResult]
    /\ state_keys = [u \in UinputSessions |-> {}]
    /\ state_abs = [u \in UinputSessions |-> {}]
    /\ InitWire
    /\ created_device_id = [u \in UinputSessions |-> None]
    /\ bound_device_id = [u \in UinputSessions |-> None]
    /\ source_device_id = [u \in UinputSessions |-> None]
    /\ mon_st = [m \in Monitors |-> IF m = "m1" THEN "subscribed" ELSE "off"]
    /\ mon_queue = [m \in Monitors |-> <<>>]
    /\ mon_pos = [m \in Monitors |-> 0]
    /\ mon_out = [m \in Monitors |-> <<>>]
    /\ add_subs = [s \in AllSessions |-> {}]
    /\ InitFan

NextLag ==
    \/ /\ next_device_id < MaxLagDevices
       /\ DOMAIN devices = {}
       /\ CreateDevice_Alloc("c1", FALSE)
    \/ Construct("c1", "ok")
    \/ CreateDevice_Insert("c1")
    \/ CreateDevice_BroadcastAdd("c1")
    \/ \E id \in DOMAIN devices : DestroyDevice_Remove("c1", id)
    \/ DestroyDevice_BroadcastRemove("c1")
    \/ DestroyDevice_Drop("c1")
    \/ Respond("c1")
    \/ MonitorRecv("m1")
    \/ MonitorClose("m1")

LagSpec == InitLagPlane /\ [][NextLag]_vars

\* The receiver of monitor m is more than the channel's capacity behind.
Lagging(m) == Len(mon_queue[m]) - mon_pos[m] > BroadcastCapacity

\* C27: a hotplug subscriber that falls behind the broadcaster is not
\* disconnected: the step in which its receiver reports the lag leaves it
\* subscribed and writes nothing, and leaves its receiver at a record that is
\* already broadcast, so that every record broadcast later is still ahead of
\* it; the records it takes afterwards are written to it one by one in the
\* order of the broadcasts; and it is dropped only in a step in which a write
\* to it fails, its peer having closed the connection.
C27_LaggedSubscriberStays ==
    /\ [](\A m \in Monitors : mon_pos[m] <= Len(mon_queue[m]))
    /\ [][\A m \in Monitors :
            /\ (Lagging(m) /\ mon_pos'[m] # mon_pos[m]) =>
                   /\ mon_st'[m] = mon_st[m]
                   /\ mon_out'[m] = mon_out[m]
                   /\ mon_pos'[m] > mon_pos[m]
                   /\ mon_pos'[m] <= Len(mon_queue[m])
            /\ mon_out'[m] # mon_out[m] =>
                   /\ mon_out'[m] = Append(mon_out[m], mon_queue[m][mon_pos[m] + 1])
                   /\ mon_pos'[m] = mon_pos[m] + 1
            /\ (mon_st[m] # "dropped" /\ mon_st'[m] = "dropped") =>
                   /\ mon_st[m] = "hungup"
                   /\ ~ Lagging(m)
                   /\ mon_pos'[m] = mon_pos[m] + 1]_vars

\* C27's case: m1 fell behind by more than the capacity, its receiver skipped
\* records, and m1, still subscribed, has since been written every record up
\* to the last one broadcast.
C27_Witness ==
    /\ mon_st["m1"] = "subscribed"
    /\ Len(mon_queue["m1"]) > BroadcastCapacity
    /\ Len(mon_out["m1"]) < mon_pos["m1"]
    /\ Len(mon_out["m1"]) > 0
    /\ mon_pos["m1"] = Len(mon_queue["m1"])
    /\ mon_out["m1"][Len(mon_out["m1"])] = mon_queue["m1"][Len(mon_queue["m1"])]

\* Records the consumers write into their event sockets in the feedback plane.
MaxFeedback == 3

\* Two force-feedback records that differ, and a key record.
FfRecords ==
    { LinuxInputEvent(EV_FF, 80, 1), LinuxInputEvent(EV_FF, 80, 0),
      LinuxInputEvent(EV_KEY, BTN_SOUTH, 1) }

NextFeedback ==
    \/ \E k \in EventConns : ConsumerClose(k)
    \/ \E f \in FbConns : FeedbackConnect(f, 0)
    \/ \E f \in FbConns : FeedbackAccept(f)
    \/ \E f \in FbConns : FeedbackClose(f)
    \/ \E k \in EventConns, rec \in FfRecords :
           Len(ff_in["k1"]) + Len(ff_in["k2"]) < MaxFeedback /\ ConsumerWrite(k, rec)
    \/ \E k \in EventConns, outcome \in ReadOutcomes : Reader(k, outcome)
    \/ \E k \in EventConns : ReaderEof(k)

\* The feedback plane: device 0 is live and its consumers are registered; they
\* write records into its event socket and close, while subscribers connect to
\* its feedback socket and close.
FeedbackSpec == InitFanPlane /\ [][NextFeedback]_vars

\* The manager takes the next record of connection k from its event socket.
Takes(k) == ff_read'[k] = ff_read[k] + 1

SendsEmpty(s) ==
    /\ pc[s] \in {"ev_send", "ev_write", "js_send", "js_write", "mirror"}
    /\ batch[s] = <<>>

\* C29: a SendInput with an empty event list puts no byte on the wire: while
\* the session handles it, the buffer handed to write_all is empty for the
\* event clients and for the joystick clients, so no SYN_REPORT was appended,
\* no step writes a unit to any consumer of any device, and the request is
\* never sent on to the mirror device.
C29_EmptyBatchWritesNothing ==
    /\ [](SendsEmpty("c1") => data["c1"] = <<>>)
    /\ [][SendsEmpty("c1") =>
              /\ wire' = wire
              /\ \A k \in Conns : unread'[k] <= unread[k]
              /\ pc["c1"] = "mirror" => pc'["c1"] \notin {"ev_send", "ev_write"}]_vars

\* C29's case: an empty batch sent to device 1 has passed its event client k2
\* and its joystick client j1.
C29_Witness ==
    /\ SendsEmpty("c1")
    /\ pc["c1"] = "js_write"
    /\ target["c1"].id = 1
    /\ joystick_clients[1] = <<"j1">>
    /\ idx["c1"] = 2

\* SendInput requests of the clamp plane.
MaxClampSends == 2

\* Axis values of an i32 around the ends of the i16 range and of the i32 range.
AxisValues ==
    {-2147483647 - 1, -65536, -32769, -32768, -32767, -1, 0, 1, 32767, 32768,
     50000, 65535, 65536, 2147483647}

NextClamp ==
    \/ \E v \in AxisValues :
           /\ sends < MaxClampSends
           /\ SendInput_Lookup("c1", 0, <<AxisEvent("LeftStickX", v)>>)
    \/ Evdev_Lock("c1")
    \/ Evdev_Write("c1")
    \/ Evdev_Finish("c1")
    \/ Joystick_Lock("c1")
    \/ Joystick_Write("c1")
    \/ Joystick_Finish("c1")
    \/ SendInput_Mirror("c1")
    \/ Respond("c1")
    \/ \E k \in Conns : ConsumerRead(k)

\* The clamp plane: one control session sends single axis events of every
\* value to device 0, whose registered consumers keep reading.
ClampSpec == InitFanPlane /\ [][NextClamp]_vars

Smaller(a, b) == IF a < b THEN a ELSE b
Larger(a, b) == IF a > b THEN a ELSE b

\* C30: for every axis value v sent to a joystick consumer, the value in the
\* joystick record is max(-32768, min(32767, v)): the buffer of the joystick
\* send holds that value for each axis event of the batch, and so does the
\* record joystick consumer j1 is written.
C30_AxisValueClamped ==
    (pc["c1"] = "js_write" /\ batch["c1"] # <<>>) =>
        LET v == batch["c1"][1].value
            record == LinuxJsEvent(JS_EVENT_AXIS, 0,
                                   Larger(-32768, Smaller(32767, v)))
        IN /\ data["c1"] = <<record>>
           /\ idx["c1"] > 1 => wire["j1"][Len(wire["j1"])] = record

\* C30's case: j1 was written the record of a value above the i16 range, and
\* now that of a value below it.
C30_Witness ==
    /\ pc["c1"] = "js_write"
    /\ idx["c1"] > 1
    /\ batch["c1"][1].value = -32769
    /\ \E i \in 1..Len(wire["j1"]) :
           wire["j1"][i] = LinuxJsEvent(JS_EVENT_AXIS, 0, I16_MAX)

NextLockPlane ==
    \/ \E m \in Managers : ManagerDirs(m)
    \/ \E m \in Managers : ManagerOpen(m)
    \/ \E m \in Managers : ManagerFlock(m)
    \/ \E m \in Managers, ok \in BOOLEAN : ManagerBuilt(m, ok)
    \/ \E m \in Managers : ManagerDrop(m)

\* The lock plane: manager processes are started on one control-socket path,
\* fail, run and are dropped; the first of them is running at the start.
LockSpec == Init /\ [][NextLockPlane]_vars

\* Manager m holds the instance lock.
HoldsLock(m) == mgr_st[m] \in {"locked", "running"}

\* C31: at most one manager holds the instance lock of the control-socket
\* path: no two managers hold it at once; a manager that reaches its flock
\* while another manager runs fails at startup; and when a running manager is
\* dropped nobody holds the lock, so the next flock succeeds.
C31_OneManagerHoldsLock ==
    /\ [](\A m, o \in Managers : (HoldsLock(m) /\ HoldsLock(o)) => m = o)
    /\ [](\A m \in Managers : HoldsLock(m) <=> lock_holder = m)
    /\ [][\A m \in Managers :
            /\ (mgr_st[m] = "opened" /\ mgr_st'[m] # "opened") =>
                   IF \E o \in Managers : HoldsLock(o)
                   THEN mgr_st'[m] = "failed"
                   ELSE mgr_st'[m] = "locked"
            /\ (mgr_st[m] = "running" /\ mgr_st'[m] # "running") =>
                   lock_holder' = NoManager]_vars

\* C31's case: the first manager was dropped, the second took the lock and
\* runs, and the third, started on the same path meanwhile, failed.
C31_Witness ==
    /\ mgr_st["mgr1"] = "down"
    /\ mgr_st["mgr2"] = "running"
    /\ mgr_st["mgr3"] = "failed"

\* Bytes of the buffer a consumer hands to EVIOCGBIT(0).
MaxEvBytes == 4

\* The configs of the sysfs plane: any buttons among A (0x130), DPadUp (0x220)
\* and Custom(63), any axes among LeftStickX (0), LowerLeftTrigger (0x15) and
\* Custom(63), as their event codes.
SysfsConfigs ==
    [buttons : SUBSET {304, 544, 63}, axes : SUBSET {0, 21, 63}]

NextSysfs ==
    \/ \E id \in SysfsIds, cfg \in SysfsConfigs : SysfsCreate(id, cfg)
    \/ \E id \in SysfsIds : SysfsRemove(id)

\* The sysfs plane: the projection of two devices is written for every config
\* and removed.
SysfsSpec == Init /\ [][NextSysfs]_vars

\* The device reports the event type EV_FF to a consumer that asks for its
\* event types.
FfAdvertised == \E size \in 1..MaxEvBytes : EV_FF \in EviocgbitEv(size)

\* C32: for every DeviceConfig the ev file has bit 0 set, bit 1 exactly when a
\* button is declared, bit 3 exactly when an axis is declared and bit 0x15
\* exactly when force feedback is advertised; the key and abs files have the
\* bits of the declared button and axis codes and no other.
C32_CapabilitiesMatchConfig ==
    \A id \in SysfsIds :
        sysfs_content[id] # NoFiles =>
            LET files == sysfs_content[id]
                ev == BitsOf(files.ev)
            IN /\ 0 \in ev
               /\ 1 \in ev <=> files.config.buttons # {}
               /\ 3 \in ev <=> files.config.axes # {}
               /\ 21 \in ev <=> FfAdvertised
               /\ ev \subseteq {0, 1, 3, 21}
               /\ BitsOf(files.key) = files.config.buttons
               /\ BitsOf(files.abs) = files.config.axes

\* C33: for every device id the dev file of event{id} holds 13:{64+id}, the
\* major and minor numbers in the name of the device's udev data file.
C33_DevFileMatchesUdevData ==
    \A id \in SysfsIds :
        sysfs_content[id] # NoFiles =>
            /\ sysfs_content[id].dev = <<13, 64 + id>>
            /\ sysfs_content[id].dev = sysfs_content[id].udev_data

\* ---------------------------------------------------------------- C34
\* The tasks of the connections run their handlers step by step, taking and
\* letting go the guards of the three mutexes, in any interleaving.
NextGuard ==
    \/ \E t \in AllSessions, h \in ControlHandlers \cup UinputHandlers : GuardBegin(t, h)
    \/ \E t \in AllSessions : GuardLock(t)
    \/ \E t \in AllSessions : GuardUnlock(t)
    \/ \E t \in AllSessions : GuardWork(t)
    \/ \E t \in AllSessions, returns \in BOOLEAN : GuardBranch(t, returns)

GuardSpec == Init /\ [][NextGuard]_vars

\* The guards a task holds.
Held(t) == {m \in Mutexes : guard[m] = t}
\* Work a guard may be held across: one insert, remove or lookup of the map
\* it protects (with the drop of what a remove returned).
ShortWork == {"alloc", "insert", "remove", "lookup", "list", "drop"}
\* A task that can take its next step now.
CanStep(t) ==
    NextStepOf(t).op = "lock" => guard[NextStepOf(t).arg] = NoTask

\* C34: a task holds at most one of the registry's, the allocator's and the
\* mirror map's guards; while it holds one it is about to do one insert,
\* remove or lookup or to let the guard go, never to construct a device, to
\* write to a consumer, to broadcast, to reply or to take another guard; and
\* whenever a task waits for a guard some task can take a step, so the three
\* mutexes never deadlock.
C34_GuardsHeldBriefly ==
    /\ \A t \in AllSessions :
        /\ Cardinality(Held(t)) <= 1
        /\ Held(t) # {} =>
            /\ at[t] # Idle
            /\ NextStepOf(t).op \in {"work", "unlock"}
            /\ NextStepOf(t).op = "work" => NextStepOf(t).arg \in ShortWork
            /\ NextStepOf(t).op = "unlock" => NextStepOf(t).arg \in Held(t)
    /\ (\E t \in AllSessions : ~CanStep(t)) => \E u \in AllSessions : CanStep(u) /\ Held(u) # {}

\* Witness: a SendInput is about to write to the consumers while another
\* session holds the registry's guard and a third task waits for it.
C34_Witness ==
    \E t, u, w \in AllSessions :
        /\ at[t] # Idle /\ at[t][1] = "SendInput" /\ NextStepOf(t) = Work("send")
        /\ guard["devices"] = u /\ u # t
        /\ w \notin {t, u} /\ NextStepOf(w) = Lock("devices")

\* ---------------------------------------------------------------- C35
\* Session u read a DevCreate before the request it is handling now.
EarlierDevCreate(u) ==
    \E i \in 1..(req_read[u] - 1) : requests[u][i].kind = "DevCreate"

\* C35: a uinput session creates at most one mirror device in its lifetime: a
\* DevCreate it reads after an earlier DevCreate, in Running or after a
\* DevDestroy, registers no device. The step that enters "dc_map" is the
\* registry insert of the DevCreate arm.
C35_OneMirrorPerSession ==
    [][\A u \in UinputSessions :
          (Wired(u) /\ pc[u] # "dc_map" /\ pc'[u] = "dc_map") => ~ EarlierDevCreate(u)]_vars

\* ---------------------------------------------------------------- C36
\* The forwarding plane: the wire plane with a second uinput session, u2,
\* whose shim has connected and sent nothing yet. Session u1 owns mirror 1, on
\* which k2 and j1 listen; k1 listens on the source, device 0.
InitForwardPlane ==
    /\ InitMirrored
    /\ requests = [u \in AllSessions |->
                      IF u = "u1"
                      THEN <<Request("SetKeyBit", <<>>), Request("DevCreate", <<>>)>>
                      ELSE <<>>]
    /\ req_read = [u \in AllSessions |-> IF u = "u1" THEN 2 ELSE 0]
    /\ responses = [u \in AllSessions |-> IF u = "u1" THEN <<1, 2>> ELSE <<>>]
    /\ resp_read = [u \in AllSessions |-> IF u = "u1" THEN 2 ELSE 0]
    /\ client = [u \in AllSessions |-> IF u \in UinputSessions THEN "ready" ELSE "none"]

\* The requests each shim writes in the forwarding plane, the first two of u1
\* included.
MaxForwardRequests == 4

\* What the applications write: a batch with a record of every kind, and a
\* batch none of whose records is forwarded. Key code 30 (KEY_A) is one that
\* Button::from_ev_code does not know (protocol.rs:138-159).
MixedBatch ==
    <<LinuxInputEvent(EV_KEY, BTN_SOUTH, 1), LinuxInputEvent(EV_REL, 0, 1),
      LinuxInputEvent(EV_KEY, 30, 1), LinuxInputEvent(EV_ABS, ABS_X, 7),
      LinuxInputEvent(EV_SYN, SYN_REPORT, 0)>>
ForwardBatches == {MixedBatch, <<LinuxInputEvent(EV_REL, 0, 1)>>}
LifecycleKinds == {"DevCreate", "DevDestroy"}

NextForward ==
    \/ \E u \in UinputSessions, kind \in LifecycleKinds :
           Len(requests[u]) < MaxForwardRequests /\ ShimRequest(u, kind)
    \/ \E u \in UinputSessions, events \in ForwardBatches :
           Len(requests[u]) < MaxForwardRequests /\ ShimWriteEvents(u, events)
    \/ \E u \in UinputSessions : ShimRead(u)
    \/ \E u \in UinputSessions : WriteEvents_Lookup(u)
    \/ \E u \in UinputSessions : Evdev_Lock(u)
    \/ \E u \in UinputSessions : Evdev_Write(u)
    \/ \E u \in UinputSessions : Evdev_Finish(u)
    \/ \E u \in UinputSessions : Joystick_Lock(u)
    \/ \E u \in UinputSessions : Joystick_Write(u)
    \/ \E u \in UinputSessions : Joystick_Finish(u)
    \/ \E u \in UinputSessions : WriteEvents_Done(u)
    \/ \E u \in UinputSessions : DevCreate_Source(u)
    \/ \E u \in UinputSessions : next_device_id < MaxRelayDevices /\ DevCreate_Alloc(u)
    \/ \E u \in UinputSessions : Construct(u, "ok")
    \/ \E u \in UinputSessions : DevCreate_Insert(u)
    \/ \E u \in UinputSessions : DevCreate_Map(u)
    \/ \E u \in UinputSessions : DevDestroy_Remove(u)
    \/ \E u \in UinputSessions : DevDestroy_Map(u)
    \/ \E u \in UinputSessions : Respond(u)
    \/ \E k \in {"k2", "j1"} : ConsumerRead(k)

ForwardSpec == InitForwardPlane /\ [][NextForward]_vars

\* The requests of kind DevCreate or DevDestroy session u has handled.
Lifecycle(u) == SelectSeq(SubSeq(requests[u], 1, req_read[u]),
                          LAMBDA f : f.kind \in LifecycleKinds)
\* Session u is Running: the last of them is a DevCreate. Every DevCreate of
\* the forwarding plane succeeds.
Running(u) ==
    Lifecycle(u) # <<>> /\ Lifecycle(u)[Len(Lifecycle(u))].kind = "DevCreate"
\* The step reads a WriteEvents request of session u with the given records.
ReadsWriteEvents(u, events) ==
    /\ pc[u] = "idle"
    /\ req_read'[u] = req_read[u] + 1
    /\ requests[u][req_read'[u]].kind = "WriteEvents"
    /\ requests[u][req_read'[u]].events = events
\* A task is inside send_events on device d.
Sending(s, d) ==
    pc[s] \in {"ev_write", "js_write"} /\ target[s].id = d

\* C36: a WriteEvents read while the session is Running hands the translated
\* events (the known key as a button, the axis, the sync; the relative motion
\* and the unknown key dropped) to send_events of the device the session
\* created, and a batch with nothing to translate to nobody; a WriteEvents read
\* before DevCreate or after DevDestroy starts no send; and whenever a record
\* is written to a consumer, the writer is a session sending on the device it
\* created and the consumer listens on that device.
C36_WriteEventsForwardedToOwnMirror ==
    [][/\ \A u \in UinputSessions :
           /\ (ReadsWriteEvents(u, MixedBatch) /\ Running(u)) =>
                  /\ pc'[u] = "ev_send"
                  /\ batch'[u] = <<ButtonEvent("A", TRUE), AxisEvent("LeftStickX", 7),
                                   SyncEvent>>
                  /\ target'[u].id = created_device_id[u]
                  /\ target'[u].id \notin {None, 0}
                  /\ \A v \in UinputSessions \ {u} : created_device_id[v] # target'[u].id
           /\ (ReadsWriteEvents(u, <<LinuxInputEvent(EV_REL, 0, 1)>>) /\ Running(u)) =>
                  pc'[u] = "idle"
           /\ (\E events \in ForwardBatches : ReadsWriteEvents(u, events) /\ ~ Running(u)) =>
                  pc'[u] = "idle"
       /\ \A k \in Conns :
           wire'[k] # wire[k] =>
               \E u \in UinputSessions :
                   /\ Sending(u, conn_dev[k])
                   /\ created_device_id[u] = conn_dev[k]
                   /\ Running(u)]_vars

\* Witness: u2 wrote the mixed batch before any DevCreate and its session has
\* read it, and u1's mixed batch has reached both consumers of its mirror.
C36_Witness ==
    /\ requests["u2"] # <<>> /\ requests["u2"][1].events = MixedBatch
    /\ req_read["u2"] >= 1 /\ pc["u2"] = "idle"
    /\ Len(wire["k2"]) > 2 /\ Len(wire["j1"]) > 2
    /\ Len(wire["k1"]) = 2

\* ---------------------------------------------------------------- C37
\* The positions in the records sent to monitor m's receiver of a record.
PositionsOf(m, rec) == {i \in 1..Len(mon_queue[m]) : mon_queue[m][i] = rec}

\* C37: for each device id, a hotplug subscriber is sent at most one add record
\* and at most one remove record, and the add before the remove, whatever
\* DestroyDevice another session issues while the CreateDevice of that id is
\* still completing.
C37_AddOnceThenRemoveOnce ==
    \A m \in Monitors, id \in 0..(MaxDevices - 1) :
        /\ Cardinality(PositionsOf(m, Record("add", id))) <= 1
        /\ Cardinality(PositionsOf(m, Record("remove", id))) <= 1
        /\ \A i \in PositionsOf(m, Record("add", id)),
              j \in PositionsOf(m, Record("remove", id)) : i < j

\* ---------------------------------------------------------------- C38
\* No session is inside a handler.
NoRequestInProgress == \A s \in AllSessions : pc[s] \in {"idle", "closed"}

\* C38: whenever no request is in progress, every entry source -> mirror of
\* the mirror map names two live devices, whichever of DestroyDevice,
\* DevDestroy and the end of a uinput session destroyed a device before.
C38_MirrorMapNamesLiveDevices ==
    NoRequestInProgress =>
        \A src \in DOMAIN mirror_map :
            src \in DOMAIN devices /\ mirror_map[src] \in DOMAIN devices

\* ---------------------------------------------------------------- C39
\* The ordering plane: both control sessions send their batch into device 0,
\* whose mirror is device 1; k1 reads the source, k2 and j1 read the mirror.
NextOrder ==
    \/ \E s \in ControlSessions :
           sends < MaxSends /\ SendInput_Lookup(s, 0, FanBatch(s))
    \/ \E s \in ControlSessions : Evdev_Lock(s)
    \/ \E s \in ControlSessions : Evdev_Write(s)
    \/ \E s \in ControlSessions : Evdev_Finish(s)
    \/ \E s \in ControlSessions : Joystick_Lock(s)
    \/ \E s \in ControlSessions : Joystick_Write(s)
    \/ \E s \in ControlSessions : Joystick_Finish(s)
    \/ \E s \in ControlSessions : SendInput_Mirror(s)
    \/ \E s \in ControlSessions : SendInput_Mirrored(s)
    \/ \E s \in ControlSessions : Respond(s)
    \/ \E k \in Conns : ConsumerRead(k)

OrderSpec == InitMirrorPlane /\ [][NextOrder]_vars

\* Where on consumer k's stream the batch of session s starts, or None.
BatchStart(k, s) == Position(wire[k], Translated(FanBatch(s))[1])
\* Consumer k was written the batches of both sessions.
HasBoth(k) == \A s \in ControlSessions : BatchStart(k, s) # None

\* C39: when the two sessions send into the same source device, the consumer
\* of its mirror is written their batches in the order in which the consumer
\* of the source is written them.
C39_MirrorOrderFollowsSource ==
    (HasBoth("k1") /\ HasBoth("k2")) =>
        ((BatchStart("k1", "c1") < BatchStart("k1", "c2"))
            <=> (BatchStart("k2", "c1") < BatchStart("k2", "c2")))

\* ---------------------------------------------------------------- C40
\* The open plane: a consumer under the launcher opens /dev/uinput and the two
\* nodes of device 0 while the manager accepts and serves the connections.
NextOpen ==
    \/ \E p \in OpenPaths : OpenConnect(p)
    \/ \E p \in OpenPaths : ReceiveHandshake(p)
    \/ \E p \in OpenPaths : HandshakeFails(p)
    \/ \E k \in {"k1", "j1"} : AcceptClient(k)
    \/ \E k \in {"k1", "j1"}, serialized \in BOOLEAN : HandshakeStep(k, serialized)
    \/ client["u1"] = "closed" /\ SessionEof("u1")

OpenSpec == InitRelayPlane /\ [][NextOpen]_vars

\* The launcher is inside receive_handshake on the uinput connection with
\* nothing to read, and the session that serves the connection is at the read
\* of its loop with nothing to read either.
EachWaitsForTheOther ==
    /\ open_st[UinputPath] = "handshake"
    /\ Arrived(UinputPath) = 0
    /\ pc[OpenConn(UinputPath)] = "idle"
    /\ req_read[OpenConn(UinputPath)] = Len(requests[OpenConn(UinputPath)])

\* C40: an open of /dev/uinput under the launcher, with the manager running,
\* does not fail, and the launcher and the manager's uinput endpoint never each
\* wait for the other to send first.
C40_UinputOpenYieldsSetupSession ==
    /\ open_st[UinputPath] # "eio"
    /\ ~ EachWaitsForTheOther

====
